---------------------------- MODULE Spec2Model ----------------------------
(***************************************************************************)
(* Verification model of the alphadia candidate-selection engine.          *)
(*                                                                         *)
(* The module holds three state machines over disjoint groups of           *)
(* variables; each specification runs one of them and leaves the other     *)
(* groups at their idle values.                                            *)
(*                                                                         *)
(*   SpecMask  calculate_score_group_limits and calculate_dia_cycle_mask   *)
(*             (hybridselection.py), the latter as the loop it is.         *)
(*   SpecCand  one candidate's way from peak picking over the boundary     *)
(*             estimate to the absolute scan/frame columns.                *)
(*   Spec      the candidate selection run: the container of elution       *)
(*             groups, the workers of the parallel executor and the        *)
(*             assembly of the candidate table.                            *)
(***************************************************************************)
EXTENDS Integers, Sequences, FiniteSets, TLC

(***************************************************************************)
(* Bounds of the model.                                                    *)
(***************************************************************************)
\* largest m/z value of a quadrupole window or a precursor (values 1..MaxMz)
MaxMz == 2
\* number of entries of the flattened DIA cycle
NCycle == 2
\* largest number of quadrupole slices handed to calculate_dia_cycle_mask
MaxSlices == 2
\* largest number of score-group precursor ions
MaxIons == 2

(***************************************************************************)
(* Helpers for sequences.                                                  *)
(***************************************************************************)
Range(s) == {s[k] : k \in 1..Len(s)}

SeqsUpTo(S, n) == UNION {[1..k -> S] : k \in 0..n}

SetMin(S) == CHOOSE x \in S : \A y \in S : x <= y

SetMax(S) == CHOOSE x \in S : \A y \in S : x >= y

(***************************************************************************)
(* State of the cycle-mask machine (SpecMask).                             *)
(***************************************************************************)
VARIABLES
    m_pc,                 \* "idle" | "limits" | "pmask" | "fmask" | "mask" | "done" | "error"
    cycle,                \* jit_data.cycle reshaped to (-1, 2): sequence of <<mz_start, mz_stop>>
    precursor_mz,         \* score-group precursor m/z (get_ion_group_mapping output)
    precursor_intensity,  \* score-group precursor intensity
    quadrupole_mz,        \* value returned by calculate_score_group_limits
    quad_slices,          \* argument of the running calculate_dia_cycle_mask call
    mz_mask,              \* local mz_mask of the running call: [j][i]
    m_i,                  \* loop index over dia_mz_cycle (1-based)
    m_j,                  \* loop index over quad_slices (1-based)
    precursor_cycle_mask, \* result of the first call in process
    fragment_cycle_mask,  \* result of the second call in process
    m_error               \* the exception that ended the run, or "none"

maskVars == <<m_pc, cycle, precursor_mz, precursor_intensity, quadrupole_mz,
              quad_slices, mz_mask, m_i, m_j, precursor_cycle_mask,
              fragment_cycle_mask, m_error>>

(***************************************************************************)
(* State of the one-candidate machine (SpecCand).                          *)
(***************************************************************************)
VARIABLES
    c_pc,               \* "idle" | "smooth" | "peaks" | "bounds" | "assemble" | "done"
    dense_shape,        \* <<n_scans, n_cycles>> of dense
    smooth_shape,       \* <<n_scans, n_cycles>> of smooth_precursor
    c_offsets,          \* [scan |-> scan_limits[0,0], frame |-> frame_limits[0,0]]
    duty_cycle_length,  \* dia_data.cycle.shape[1]
    c_peak,             \* <<scan, cycle>> of the peak at hand
    c_limits,           \* [scan |-> limit_scan, cycle |-> limit_cycle]
    c_row               \* the row of the candidate table

candVars == <<c_pc, dense_shape, smooth_shape, c_offsets, duty_cycle_length,
              c_peak, c_limits, c_row>>

(***************************************************************************)
(* State of the candidate selection run (Spec).                            *)
(***************************************************************************)
VARIABLES
    selection,          \* "none" | "MS1Centric" | "Hybrid": the class whose __call__ runs
    input_table,        \* the precursor table as handed to __init__
    debug,              \* the debug flag of the selector
    precursors_flat,    \* the precursor table: sequence of rows
    fragments_flat,     \* the fragment table of the Hybrid selector: sequence of rows
    jit_data,           \* the raw data handed to every worker (dia_data.jitclass())
    kernel,             \* shape of the smoothing kernel
    fragment_container, \* the fragments assembled by the Hybrid selector (empty before)
    thread_count,       \* number of worker threads
    eg_container,       \* the container: sequence of elution / score groups (empty before assembly)
    pc,                 \* position of __call__: "idle" | "call" | "start" | "run" | "joined" | "done" | "error"
    workers,            \* thread_id -> state of the worker thread
    writers,            \* container position -> threads that have written the group
    finish_order,       \* container positions in the order their process call returned
    df,                 \* the candidate table (empty before assembly); returned when pc = "done"
    error               \* the exception that ended __call__, or "none"

runVars == <<selection, input_table, debug, precursors_flat, fragments_flat, jit_data, kernel,
             fragment_container, thread_count, eg_container, pc, workers, writers,
             finish_order, df, error>>

(***************************************************************************)
(* State of a schema validation (SpecValidate).                            *)
(***************************************************************************)
VARIABLES
    v_pc,      \* "idle" | "call" | "returned" | "raised"
    v_schema,  \* the Schema object that is called
    v_input,   \* the dataframe as it was handed over: column name -> dtype
    v_df,      \* the dataframe, which the call changes in place
    v_error    \* the ValueError raised: [schema |-> ..., column |-> ...], or <<>>

valVars == <<v_pc, v_schema, v_input, v_df, v_error>>

(***************************************************************************)
(* State of a call of fourier_filter (SpecFilter).                         *)
(***************************************************************************)
VARIABLES
    ff_pc,      \* "idle" | "call" | "done"
    ff_dense,   \* dense_stack[0, i, j]: rows (scans) of columns (cycles), from index 0
    ff_kernel,  \* the kernel: rows of columns, from index 0
    ff_out      \* smooth_output[i, j], <<>> before the call

filterVars == <<ff_pc, ff_dense, ff_kernel, ff_out>>

(***************************************************************************)
(* State of get_push_indices followed by assemble_push (SpecPush).         *)
(***************************************************************************)
VARIABLES
    p_pc,             \* "idle" | "query" | "assemble" | "loop" | "done" | "ub"
    p_data,           \* jit_data: the raw data, indexed by tof, and the cycle
    cycle_mask,       \* row 0 of the cycle mask: one flag per entry of dia_mz_cycle
    p_limits,         \* [frame_limits, scan_limits, tof_limits]
    push_query,       \* the pushes get_push_indices selected
    precursor_index,  \* their absolute precursor cycle
    dense_output,     \* [shape, intensity]: the shape and channel 0 of the tensor
    p_loop,           \* [j, tof_index, i, idx]: the position of the loops
    p_visited         \* the pairs <<j, i, idx>> the loop has found equal, in order

pushVars == <<p_pc, p_data, cycle_mask, p_limits, push_query, precursor_index,
              dense_output, p_loop, p_visited>>

(***************************************************************************)
(* State of a call of determine_score_groups (SpecScoreGroups).            *)
(***************************************************************************)
VARIABLES
    sg_pc,            \* "idle" | "call" | "done"
    precursor_decoy,  \* self.precursor_decoy of the group
    score_grouped,    \* the argument of the call
    group_ids         \* the array returned, <<>> before the call

scoreVars == <<sg_pc, precursor_decoy, score_grouped, group_ids>>

(***************************************************************************)
(* State of Workflow.calibration (SpecWorkflow).                           *)
(***************************************************************************)
VARIABLES
    w_pc,           \* "idle" | "plan" | "epoch" | "step" | "final" | "done"
    config,         \* self.config['extraction']
    n_eg,           \* the number of elution groups of precursors_flat
    plan_loop,      \* [plan, step, start_index, n_batches] of get_batch_plan
    batch_plan,     \* self.batch_plan, <<>> before get_batch_plan returned
    progress,       \* self.progress, <<>> before start_of_calibration
    current_epoch,  \* the variable of the epoch loop
    current_step,   \* the variable of the step loop, from 0
    recal_log       \* <<epoch, step>> of every recalibration of a step loop

workflowVars == <<w_pc, config, n_eg, plan_loop, batch_plan, progress,
                  current_epoch, current_step, recal_log>>

(***************************************************************************)
(* State of the candidate_key filter of Plan.run (SpecCandidateKey).       *)
(***************************************************************************)
VARIABLES
    ck_pc,      \* "idle" | "filter" | "done"
    fdr,        \* self.config["fdr"]["fdr"]
    psm_df,     \* the precursor table workflow.extraction returned
    frag_df,    \* the fragment table workflow.extraction returned
    psm_out,    \* psm_df after the FDR filter, <<>> before
    frag_out    \* frag_df after the candidate_key filter, <<>> before

keyVars == <<ck_pc, fdr, psm_df, frag_df, psm_out, frag_out>>

(***************************************************************************)
(* State of assemble_elution_groups with the arrays of every ElutionGroup  *)
(* (SpecElutionGroups).                                                    *)
(***************************************************************************)
VARIABLES
    ae_pc,          \* "idle" | "assemble" | "done" | "raised"
    ae_table,       \* self.precursors_flat
    ae_has_column,  \* 'isotope_apex_offset' in self.precursors_flat.columns
    ae_egs          \* the list egs: the groups built so far

egVars == <<ae_pc, ae_table, ae_has_column, ae_egs>>

(***************************************************************************)
(* State of smooth of preprocessing/smoothing.py (SpecSmooth).             *)
(***************************************************************************)
VARIABLES
    sm_pc,     \* "idle" | "run" | "done" | "ub"
    sm_data,   \* the arguments of smooth and the shape of the cycle
    sm_loop,   \* [cycle_index, connection_index]: the position of the loops
    sm_reads   \* the indices at which the last iteration read indptr, in order

smoothVars == <<sm_pc, sm_data, sm_loop, sm_reads>>

(***************************************************************************)
(* State of the per-file loop of Plan.run (SpecPlan).                      *)
(***************************************************************************)
VARIABLES
    pl_pc,          \* "idle" | "loop" | "done" | "propagated"
    pl_module,      \* the module of the Plan: "planning" | "extraction.planning"
    raw_file_list,  \* per raw file, what its processing runs into
    pl_index,       \* the number of files the loop has taken
    pl_processed,   \* the files whose try block was entered, in order
    pl_logged       \* the files whose exception was logged, in order

planVars == <<pl_pc, pl_module, raw_file_list, pl_index, pl_processed, pl_logged>>

vars == <<maskVars, candVars, runVars, valVars, filterVars, pushVars, scoreVars, workflowVars, keyVars, egVars, smoothVars, planVars>>

\* what the actions of one machine leave alone
nonMaskVars == <<candVars, runVars, valVars, filterVars, pushVars, scoreVars, workflowVars, keyVars, egVars, smoothVars, planVars>>
nonCandVars == <<maskVars, runVars, valVars, filterVars, pushVars, scoreVars, workflowVars, keyVars, egVars, smoothVars, planVars>>
nonRunVars == <<maskVars, candVars, valVars, filterVars, pushVars, scoreVars, workflowVars, keyVars, egVars, smoothVars, planVars>>
nonValVars == <<maskVars, candVars, runVars, filterVars, pushVars, scoreVars, workflowVars, keyVars, egVars, smoothVars, planVars>>
nonFilterVars == <<maskVars, candVars, runVars, valVars, pushVars, scoreVars, workflowVars, keyVars, egVars, smoothVars, planVars>>
nonPushVars == <<maskVars, candVars, runVars, valVars, filterVars, scoreVars, workflowVars, keyVars, egVars, smoothVars, planVars>>
nonScoreVars == <<maskVars, candVars, runVars, valVars, filterVars, pushVars, workflowVars, keyVars, egVars, smoothVars, planVars>>
nonWorkflowVars == <<maskVars, candVars, runVars, valVars, filterVars, pushVars, scoreVars, keyVars, egVars, smoothVars, planVars>>
nonKeyVars == <<maskVars, candVars, runVars, valVars, filterVars, pushVars, scoreVars, workflowVars, egVars, smoothVars, planVars>>
nonEgVars == <<maskVars, candVars, runVars, valVars, filterVars, pushVars, scoreVars, workflowVars, keyVars, smoothVars, planVars>>
nonSmoothVars == <<maskVars, candVars, runVars, valVars, filterVars, pushVars, scoreVars, workflowVars, keyVars, egVars, planVars>>
nonPlanVars == <<maskVars, candVars, runVars, valVars, filterVars, pushVars, scoreVars, workflowVars, keyVars, egVars, smoothVars>>

\* A cycle entry: MS1 is (-1, -1), a quadrupole window is (low, high), low <= high.
MS1Entry == <<-1, -1>>

MzPairs == {<<a, b>> : a \in 1..MaxMz, b \in 1..MaxMz} \ {<<a, b>> \in (1..MaxMz) \X (1..MaxMz) : a > b}

CycleEntries == {MS1Entry} \cup MzPairs

\* np.zeros((n_score_groups, len(dia_mz_cycle)), dtype=np.bool_)
zeros_mask(nq, nc) == [j \in 1..nq |-> [i \in 1..nc |-> FALSE]]

\* faulty variant: strict comparisons
quad_hit_strict(mz_start, mz_stop, quad_mz_start, quad_mz_stop) ==
    (quad_mz_start < mz_stop) /\ (quad_mz_stop > mz_start)

\* the test of calculate_dia_cycle_mask
quad_hit(mz_start, mz_stop, quad_mz_start, quad_mz_stop) ==
    (quad_mz_start <= mz_stop) /\ (quad_mz_stop >= mz_start)

\* precursor_mz[mask] with mask = precursor_intensity > 0
masked_mz(mz, intensity) == {mz[k] : k \in {n \in 1..Len(mz) : intensity[n] > 0}}

(***************************************************************************)
(* calculate_score_group_limits.  quadrupole_mz is np.zeros((1, 2)).       *)
(* "quadrupole_mz[0] = min" assigns the scalar to the whole row 0, and     *)
(* "quadrupole_mz[1] = max" indexes row 1 of an array with one row.  The   *)
(* function is njit-compiled: without bounds checking the store lands      *)
(* outside the array and the array keeps (min, min); with bounds checking  *)
(* (NUMBA_BOUNDSCHECK, or the interpreted function) it raises IndexError.  *)
(* min() of an empty selection raises ValueError.                          *)
(* The operator gives the set of outcomes.                                 *)
(***************************************************************************)
calculate_score_group_limits(mz, intensity) ==
    LET sel == masked_mz(mz, intensity) IN
    IF sel = {}
    THEN {[error |-> "ValueError", value |-> <<>>]}
    ELSE {[error |-> "none", value |-> << <<SetMin(sel), SetMin(sel)>> >>],
          [error |-> "IndexError", value |-> <<>>]}

MaskIdle ==
    /\ m_pc = "idle"
    /\ cycle = <<>>
    /\ precursor_mz = <<>>
    /\ precursor_intensity = <<>>
    /\ quadrupole_mz = <<>>
    /\ quad_slices = <<>>
    /\ mz_mask = <<>>
    /\ m_i = 0
    /\ m_j = 0
    /\ precursor_cycle_mask = <<>>
    /\ fragment_cycle_mask = <<>>
    /\ m_error = "none"

\* Either a call of calculate_dia_cycle_mask with any quad_slices, or the part of
\* HybridElutionGroup.process from calculate_score_group_limits to the two masks.
MaskInit ==
    /\ cycle \in [1..NCycle -> CycleEntries]
    /\ quadrupole_mz = <<>>
    /\ mz_mask = <<>>
    /\ m_i = 0
    /\ m_j = 0
    /\ precursor_cycle_mask = <<>>
    /\ fragment_cycle_mask = <<>>
    /\ m_error = "none"
    /\ \/ /\ m_pc = "mask"
          /\ quad_slices \in (SeqsUpTo(CycleEntries, MaxSlices) \ {<<>>})
          /\ precursor_mz = <<>>
          /\ precursor_intensity = <<>>
       \/ /\ m_pc = "limits"
          /\ quad_slices = <<>>
          /\ \E n \in 1..MaxIons :
                /\ precursor_mz \in [1..n -> 1..MaxMz]
                /\ precursor_intensity \in [1..n -> 0..1]

\* process, line 493: quadrupole_mz = calculate_score_group_limits(...)
M_Limits ==
    /\ m_pc = "limits"
    /\ \E out \in calculate_score_group_limits(precursor_mz, precursor_intensity) :
          IF out.error = "none"
          THEN /\ quadrupole_mz' = out.value
               /\ m_pc' = "pmask"
               /\ quad_slices' = <<MS1Entry>>
               /\ mz_mask' = zeros_mask(1, Len(cycle))
               /\ m_i' = 1
               /\ m_j' = 1
               /\ m_error' = m_error
          ELSE /\ m_pc' = "error"
               /\ m_error' = out.error
               /\ UNCHANGED <<quadrupole_mz, quad_slices, mz_mask, m_i, m_j>>
    /\ UNCHANGED <<cycle, precursor_mz, precursor_intensity,
                   precursor_cycle_mask, fragment_cycle_mask>>
    /\ UNCHANGED nonMaskVars

\* a direct call starts: mz_mask = np.zeros(...)
M_Call ==
    /\ m_pc = "mask"
    /\ mz_mask = <<>>
    /\ mz_mask' = zeros_mask(Len(quad_slices), Len(cycle))
    /\ m_i' = 1
    /\ m_j' = 1
    /\ UNCHANGED <<m_pc, cycle, precursor_mz, precursor_intensity, quadrupole_mz,
                   quad_slices, precursor_cycle_mask, fragment_cycle_mask, m_error>>
    /\ UNCHANGED nonMaskVars

\* one iteration of the inner loop of calculate_dia_cycle_mask
mask_cell(mask, i, j, cyc, slices) ==
    IF quad_hit(cyc[i][1], cyc[i][2], slices[j][1], slices[j][2])
    THEN [mask EXCEPT ![j][i] = TRUE]
    ELSE mask

M_Step ==
    /\ m_pc \in {"mask", "pmask", "fmask"}
    /\ mz_mask # <<>>
    /\ m_i <= Len(cycle)
    /\ mz_mask' = mask_cell(mz_mask, m_i, m_j, cycle, quad_slices)
    /\ IF m_j < Len(quad_slices)
       THEN m_j' = m_j + 1 /\ m_i' = m_i
       ELSE m_j' = 1 /\ m_i' = m_i + 1
    /\ UNCHANGED <<m_pc, cycle, precursor_mz, precursor_intensity, quadrupole_mz,
                   quad_slices, precursor_cycle_mask, fragment_cycle_mask, m_error>>
    /\ UNCHANGED nonMaskVars

\* return mz_mask
M_Return ==
    /\ m_pc \in {"mask", "pmask", "fmask"}
    /\ mz_mask # <<>>
    /\ m_i > Len(cycle)
    /\ CASE m_pc = "mask" ->
              /\ m_pc' = "done"
              /\ UNCHANGED <<quad_slices, mz_mask, m_i, m_j,
                             precursor_cycle_mask, fragment_cycle_mask>>
         [] m_pc = "pmask" ->
              /\ precursor_cycle_mask' = mz_mask
              /\ m_pc' = "fmask"
              /\ quad_slices' = quadrupole_mz
              /\ mz_mask' = zeros_mask(Len(quadrupole_mz), Len(cycle))
              /\ m_i' = 1
              /\ m_j' = 1
              /\ UNCHANGED fragment_cycle_mask
         [] m_pc = "fmask" ->
              /\ fragment_cycle_mask' = mz_mask
              /\ m_pc' = "done"
              /\ UNCHANGED <<quad_slices, mz_mask, m_i, m_j, precursor_cycle_mask>>
    /\ UNCHANGED <<cycle, precursor_mz, precursor_intensity, quadrupole_mz, m_error>>
    /\ UNCHANGED nonMaskVars

MaskNext == M_Limits \/ M_Call \/ M_Step \/ M_Return

(***************************************************************************)
(* Claims on the cycle mask.                                               *)
(***************************************************************************)
\* cell (j, i) has been handled by the loop of the running call
mask_visited(i, j) == i < m_i \/ (i = m_i /\ j < m_j)

\* C1: calculate_dia_cycle_mask sets mask[j, i] iff cycle entry i = (q_low, q_high)
\* and window j = (w_low, w_high) satisfy q_low <= w_high and q_high >= w_low, for
\* every entry and every window; a cell the loop has not set is false.  Stated of
\* the running call at every step and of the mask it returns.
C1_MaskIffOverlap ==
    /\ mz_mask # <<>> =>
          \A j \in 1..Len(quad_slices) : \A i \in 1..Len(cycle) :
              mz_mask[j][i] <=>
                  /\ mask_visited(i, j)
                  /\ cycle[i][1] <= quad_slices[j][2]
                  /\ cycle[i][2] >= quad_slices[j][1]
    /\ precursor_cycle_mask # <<>> =>
          \A i \in 1..Len(cycle) :
              precursor_cycle_mask[1][i] <=> (cycle[i][1] <= -1 /\ cycle[i][2] >= -1)

\* C1 witness: a finished call with two windows whose mask has a set and an unset cell
C1_Witness ==
    /\ m_pc = "done"
    /\ precursor_mz = <<>>
    /\ Len(quad_slices) = 2
    /\ \E j \in 1..2 : \E i \in 1..Len(cycle) : mz_mask[j][i]
    /\ \E j \in 1..2 : \E i \in 1..Len(cycle) : ~mz_mask[j][i]

\* C2: the window process hands to the fragment cycle mask is (min, max) of the
\* selected precursor m/z with intensity > 0, so a cycle entry is in the fragment
\* mask iff its quadrupole window overlaps [min, max].
C2_WindowIsMinMax ==
    (m_pc = "done" /\ precursor_mz # <<>>) =>
        LET sel == masked_mz(precursor_mz, precursor_intensity) IN
        /\ quadrupole_mz = << <<SetMin(sel), SetMax(sel)>> >>
        /\ \A i \in 1..Len(cycle) :
              fragment_cycle_mask[1][i] <=>
                  (cycle[i][1] <= SetMax(sel) /\ cycle[i][2] >= SetMin(sel))

(***************************************************************************)
(* One candidate from peak to table row (SpecCand).                        *)
(*                                                                         *)
(* ElutionGroup.process smooths the dense window (fourier_filter crops it  *)
(* to even sizes), picks peaks in the smoothed (scan, cycle) matrix,       *)
(* estimates the boundaries of each and stores centre and limits relative  *)
(* to the window; assemble_candidates turns them into absolute scan and    *)
(* frame indices.  utils.find_peaks and                                    *)
(* utils.estimate_peak_boundaries_symmetric are not part of the sources    *)
(* at hand and are modelled from the specification (sections 4.6, 3).      *)
(***************************************************************************)
\* largest number of scans of a dense window
MaxScans == 14
\* largest number of cycles of a dense window
MaxCycles == 8
\* how far a boundary may grow beyond the minimal size
MaxGrow == 1
\* largest scan_limits[0,0] and frame_limits[0,0]
MaxOffset == 1
\* largest duty cycle length (dia_data.cycle.shape[1])
MaxDuty == 2
\* process: min_size_mobility=6, min_size_rt=3
min_size_mobility == 6
min_size_rt == 3

CandIdle ==
    /\ c_pc = "idle"
    /\ dense_shape = <<>>
    /\ smooth_shape = <<>>
    /\ c_offsets = <<>>
    /\ duty_cycle_length = 0
    /\ c_peak = <<>>
    /\ c_limits = <<>>
    /\ c_row = <<>>

CandInit ==
    /\ c_pc = "smooth"
    /\ dense_shape \in (1..MaxScans) \X (1..MaxCycles)
    /\ smooth_shape = <<>>
    /\ c_offsets \in [scan : 0..MaxOffset, frame : 0..MaxOffset]
    /\ duty_cycle_length \in 1..MaxDuty
    /\ c_peak = <<>>
    /\ c_limits = <<>>
    /\ c_row = <<>>

\* fourier_filter: scan_size = shape[3] - shape[3] % 2 (likewise frame_size)
even_size(n) == n - (n % 2)

\* utils.find_peaks: the positions a peak of an (S, C) matrix can have
find_peaks_positions(shape) == (0..(shape[1] - 1)) \X (0..(shape[2] - 1))

\* utils.estimate_peak_boundaries_symmetric along one axis: the boundary extends
\* symmetrically by delta >= min_size around the centre; clip says whether the
\* limits are cut to the matrix.
peak_boundary(center, delta, size, clip) ==
    IF clip
    THEN <<IF center - delta < 0 THEN 0 ELSE center - delta,
           IF center + delta > size THEN size ELSE center + delta>>
    ELSE <<center - delta, center + delta>>

\* assemble_candidates: eg.candidate_scan_center + eg.scan_limits[0,0], and the
\* same for both columns of eg.candidate_scan_limit
absolute_scan(relative, scan_start) == relative + scan_start

\* faulty variant: the centre is not scaled by the duty cycle length
absolute_frame_center_unscaled(relative, duty, frame_start) == relative + frame_start

\* assemble_candidates: eg.candidate_frame_center*duty_cycle_length + eg.frame_limits[0,0]
absolute_frame_center(relative, duty, frame_start) == relative * duty + frame_start

\* assemble_candidates: eg.candidate_frame_limit[:,k]*duty_cycle_length + eg.frame_limits[0,0]
absolute_frame_limit(relative, duty, frame_start) == relative * duty + frame_start

\* smooth_dense = fourier_filter(dense, kernel)
C_Smooth ==
    /\ c_pc = "smooth"
    /\ smooth_shape' = <<even_size(dense_shape[1]), even_size(dense_shape[2])>>
    /\ c_pc' = "peaks"
    /\ UNCHANGED <<dense_shape, c_offsets, duty_cycle_length, c_peak, c_limits, c_row>>
    /\ UNCHANGED nonCandVars

\* utils.find_peaks yields a peak (or none: nothing is emitted)
C_FindPeak ==
    /\ c_pc = "peaks"
    /\ \/ /\ \E pos \in find_peaks_positions(smooth_shape) : c_peak' = pos
          /\ c_pc' = "bounds"
       \/ /\ c_pc' = "done"
          /\ UNCHANGED c_peak
    /\ UNCHANGED <<dense_shape, smooth_shape, c_offsets, duty_cycle_length, c_limits, c_row>>
    /\ UNCHANGED nonCandVars

\* limit_scan, limit_cycle = utils.estimate_peak_boundaries_symmetric(...)
C_Boundaries ==
    /\ c_pc = "bounds"
    /\ \E ds \in min_size_mobility..(min_size_mobility + MaxGrow),
          dc \in min_size_rt..(min_size_rt + MaxGrow), clip \in BOOLEAN :
          c_limits' = [scan  |-> peak_boundary(c_peak[1], ds, smooth_shape[1], clip),
                       cycle |-> peak_boundary(c_peak[2], dc, smooth_shape[2], clip)]
    /\ c_pc' = "assemble"
    /\ UNCHANGED <<dense_shape, smooth_shape, c_offsets, duty_cycle_length, c_peak, c_row>>
    /\ UNCHANGED nonCandVars

\* assemble_candidates, the scan and frame columns of the row
C_Assemble ==
    /\ c_pc = "assemble"
    /\ c_row' = [
          scan_center  |-> absolute_scan(c_peak[1], c_offsets.scan),
          scan_start   |-> absolute_scan(c_limits.scan[1], c_offsets.scan),
          scan_stop    |-> absolute_scan(c_limits.scan[2], c_offsets.scan),
          frame_center |-> absolute_frame_center(c_peak[2], duty_cycle_length, c_offsets.frame),
          frame_start  |-> absolute_frame_limit(c_limits.cycle[1], duty_cycle_length, c_offsets.frame),
          frame_stop   |-> absolute_frame_limit(c_limits.cycle[2], duty_cycle_length, c_offsets.frame)]
    /\ c_pc' = "done"
    /\ UNCHANGED <<dense_shape, smooth_shape, c_offsets, duty_cycle_length, c_peak, c_limits>>
    /\ UNCHANGED nonCandVars

CandNext == C_Smooth \/ C_FindPeak \/ C_Boundaries \/ C_Assemble

\* C3: every candidate row has scan_start <= scan_center < scan_stop and
\* frame_start <= frame_center < frame_stop, for every scan/frame offset and every
\* duty cycle length >= 1.
C3_CenterWithinLimits ==
    c_row # <<>> =>
        /\ c_row.scan_start <= c_row.scan_center
        /\ c_row.scan_center < c_row.scan_stop
        /\ c_row.frame_start <= c_row.frame_center
        /\ c_row.frame_center < c_row.frame_stop

\* C3 witness: a row of a peak away from the window origin, with offsets and a
\* duty cycle length above 1
C3_Witness ==
    /\ c_row # <<>>
    /\ duty_cycle_length > 1
    /\ c_offsets.scan > 0
    /\ c_offsets.frame > 0
    /\ c_limits.cycle[1] > 0
    /\ c_limits.scan[1] > 0

(***************************************************************************)
(* The candidate selection run (Spec).                                     *)
(*                                                                         *)
(* MS1CentricCandidateSelection.__call__ (candidateselection.py) and       *)
(* HybridCandidateSelection.__call__ (hybridselection.py): the container   *)
(* of groups is assembled from the precursor table, the pjit executor      *)
(* starts thread_count threads of which thread t handles the indices       *)
(* t, t + thread_count, ... and waits for all of them, and the result is   *)
(* put together.  utils.find_peaks is not part of the sources at hand: the *)
(* number of peaks it returns is modelled from the specification.          *)
(***************************************************************************)
\* largest number of rows of the precursor table
MaxRows == 3
\* largest thread_count
MaxThreads == 2
\* how many peaks more than candidate_count a precursor window may hold
MaxExtraPeaks == 1
\* how many elution groups more than the debug limit a debug run may have
MaxBeyond == 1
\* __init__: candidate_count = 3
candidate_count == 3
\* __call__: min(10, len(elution_group_container)) in debug mode
DebugGroups == 10
\* __init__: k = 20, the kernel is (k, k)
KernelSize == 20

\* values of the elution_group_idx column
EgIds == {1, 2}

\* a row of precursors_flat; precursor_idx is unique, m/z values are distinct,
\* the precursors of an elution group share their rt; i_0 is the one isotope
\* intensity column
TableRow(p, n, eg, mz_dir, ch, iso) ==
    [precursor_idx     |-> p,
     elution_group_idx |-> eg[p],
     channel           |-> ch[p],
     rt                |-> 10 * eg[p],
     mz                |-> IF mz_dir = "asc" THEN p ELSE n + 1 - p,
     i_0               |-> iso[p]]

\* the tables handed to a selector: n rows in ascending or descending order of
\* precursor_idx, any assignment of elution groups and channels, m/z rising or
\* falling with precursor_idx, isotope intensity 0 or 1
InputTables ==
    UNION {{[k \in 1..n |-> TableRow(IF row_dir = "asc" THEN k ELSE n + 1 - k,
                                     n, eg, mz_dir, ch, [j \in 1..n |-> iso])] :
                eg \in [1..n -> EgIds], ch \in [1..n -> 0..1], iso \in 0..1,
                row_dir \in {"asc", "desc"}, mz_dir \in {"asc", "desc"}} :
           n \in 0..MaxRows}

\* the tables of the MS1-centric runs: one channel, isotopes present
MS1Tables ==
    {t \in InputTables : \A k \in 1..Len(t) : t[k].channel = 0 /\ t[k].i_0 = 1}

\* the tables of the Hybrid runs: in ascending order of precursor_idx (__init__
\* sorts them), elution groups numbered along precursor_idx
HybridTables ==
    {t \in InputTables :
        \A k \in 1..Len(t) :
            /\ t[k].precursor_idx = k
            /\ k > 1 => t[k - 1].elution_group_idx <= t[k].elution_group_idx}

\* shapes (scans, cycles) of the dense fragment window of a Hybrid group: the
\* window without a selected push, and windows around the kernel size
WindowShapes ==
    {<<0, 0>>,
     <<KernelSize - 1, KernelSize>>,
     <<KernelSize, KernelSize - 1>>,
     <<KernelSize, KernelSize>>,
     <<KernelSize + 1, KernelSize + 1>>}

\* numbers of peaks of a window: none, one, as many as candidate_count, more
PeakCounts == {0, 1, candidate_count, candidate_count + MaxExtraPeaks}

\* the raw data as the workers see it: the number of peaks the smoothed window of
\* a precursor of an elution group holds, and the indices of the rt / mobility window
InputData ==
    {[peaks         |-> pk,
      frame_indices |-> <<0, 3>>,
      scan_indices  |-> <<1, 3>>] : pk \in [EgIds -> PeakCounts]}

\* stable sort of a sequence s by the integer keys key[1..Len(s)]
sort_by(s, key) ==
    LET n == Len(s)
        place(k) == Cardinality({m \in 1..n : \/ key[m] < key[k]
                                              \/ key[m] = key[k] /\ m < k}) + 1
    IN [r \in 1..n |-> s[CHOOSE k \in 1..n : place(k) = r]]

\* faulty variant: the table keeps the order of its rows
sort_values_keep(table) == table

\* precursors_flat.sort_values('precursor_idx').reset_index(drop=True)
sort_values_precursor_idx(table) ==
    sort_by(table, [k \in 1..Len(table) |-> table[k].precursor_idx])

\* faulty variant: the groups come in the order of their first row
groupby_keys_unsorted(table) ==
    LET first(g) == SetMin({k \in 1..Len(table) : table[k].elution_group_idx = g})
        ids == {table[k].elution_group_idx : k \in 1..Len(table)}
    IN [r \in 1..Cardinality(ids) |->
            CHOOSE g \in ids : Cardinality({h \in ids : first(h) < first(g)}) = r - 1]

\* precursors_flat.groupby('elution_group_idx'): the keys in ascending order
groupby_keys(table) ==
    LET ids == {table[k].elution_group_idx : k \in 1..Len(table)}
    IN [r \in 1..Cardinality(ids) |->
            CHOOSE g \in ids : Cardinality({h \in ids : h < g}) = r - 1]

\* ElutionGroup.sort_by_mz: the precursor arrays in the order of np.argsort(mz)
sort_by_mz(rows) ==
    sort_by(rows, [k \in 1..Len(rows) |-> rows[k].mz])

\* ElutionGroup.__init__ for the rows of one group; the arrays process fills are
\* empty until then
ElutionGroup(name, grouped) ==
    LET sorted == sort_by_mz(grouped) IN
    [elution_group_idx       |-> name,
     rt                      |-> grouped[1].rt,
     precursor_idx           |-> [k \in 1..Len(sorted) |-> sorted[k].precursor_idx],
     mz                      |-> [k \in 1..Len(sorted) |-> sorted[k].mz],
     frame_limits            |-> <<>>,
     scan_limits             |-> <<>>,
     tof_limits              |-> <<>>,
     candidate_scan_limit    |-> <<>>,
     candidate_precursor_idx |-> <<>>,
     candidate_rank          |-> <<>>]

\* MS1CentricCandidateSelection.assemble_elution_groups: the sorted table and the
\* list egs
assemble_elution_groups(table) ==
    LET sorted == sort_values_precursor_idx(table)
        keys == groupby_keys(sorted)
        grouped(g) == LET in_group(r) == r.elution_group_idx = g
                      IN SelectSeq(sorted, in_group)
    IN [table |-> sorted,
        egs   |-> [r \in 1..Len(keys) |-> ElutionGroup(keys[r], grouped(keys[r]))]]

RunIdle ==
    /\ selection = "none"
    /\ input_table = <<>>
    /\ debug = FALSE
    /\ precursors_flat = <<>>
    /\ fragments_flat = <<>>
    /\ jit_data = <<>>
    /\ kernel = <<>>
    /\ fragment_container = <<>>
    /\ thread_count = 0
    /\ eg_container = <<>>
    /\ pc = "idle"
    /\ workers = <<>>
    /\ writers = <<>>
    /\ finish_order = <<>>
    /\ df = <<>>
    /\ error = "none"

\* the selector after __init__, about to be called
RunInit ==
    /\ \/ /\ selection = "MS1Centric"
          /\ precursors_flat \in MS1Tables
          /\ fragments_flat = <<>>
          /\ jit_data \in InputData
       \/ /\ selection = "Hybrid"
          /\ precursors_flat \in HybridTables
          /\ fragments_flat \in {<<>>, <<[mz |-> 1, intensity |-> 1]>>}
          /\ jit_data \in {d \in InputData : \A g \in EgIds : d.peaks[g] = 0}
    /\ input_table = precursors_flat
    /\ debug = FALSE
    /\ kernel = <<KernelSize, KernelSize>>
    /\ fragment_container = <<>>
    /\ thread_count \in 1..MaxThreads
    /\ eg_container = <<>>
    /\ pc = "call"
    /\ workers = <<>>
    /\ writers = <<>>
    /\ finish_order = <<>>
    /\ df = <<>>
    /\ error = "none"

\* a table of n precursors, each its own elution group, in the order of
\* precursor_idx
DebugTable(n) ==
    [k \in 1..n |-> TableRow(k, n, [j \in 1..n |-> j], "asc", [j \in 1..n |-> 0],
                             [j \in 1..n |-> 1])]

\* the raw data of a debug run: every window of the n groups holds pk peaks
DebugData(n, pk) ==
    [peaks         |-> [g \in 1..n |-> pk],
     frame_indices |-> <<0, 3>>,
     scan_indices  |-> <<1, 3>>]

\* the selector after __init__ with debug = True: tables with about DebugGroups
\* elution groups, and for the Hybrid selector also two-row tables with fragments
DebugInit ==
    /\ \/ /\ selection = "MS1Centric"
          /\ \E n \in (DebugGroups - 1)..(DebugGroups + MaxBeyond), pk \in PeakCounts :
                /\ precursors_flat = DebugTable(n)
                /\ jit_data = DebugData(n, pk)
          /\ fragments_flat = <<>>
       \/ /\ selection = "Hybrid"
          /\ \E n \in DebugGroups..(DebugGroups + MaxBeyond + 1) :
                /\ precursors_flat = DebugTable(n)
                /\ jit_data = DebugData(n, 0)
          /\ fragments_flat = <<>>
       \/ /\ selection = "Hybrid"
          /\ precursors_flat \in {t \in HybridTables : Len(t) = 2}
          /\ fragments_flat \in {<<>>, <<[mz |-> 1, intensity |-> 1]>>}
          /\ jit_data \in {d \in InputData : \A g \in EgIds : d.peaks[g] = 0}
    /\ input_table = precursors_flat
    /\ debug = TRUE
    /\ kernel = <<KernelSize, KernelSize>>
    /\ fragment_container = <<>>
    /\ thread_count \in 1..MaxThreads
    /\ eg_container = <<>>
    /\ pc = "call"
    /\ workers = <<>>
    /\ writers = <<>>
    /\ finish_order = <<>>
    /\ df = <<>>
    /\ error = "none"

\* elution groups numbered along precursor_idx
EgAscending(n) ==
    {eg \in [1..n -> EgIds] : \A k \in 2..n : eg[k - 1] <= eg[k]}

\* the tables of the runs on shuffled input: n rows in any order; the MS1-centric
\* tables have one channel and isotopes, the Hybrid tables one channel and any
\* isotope intensities
ShuffledTables(sel) ==
    UNION {{[k \in 1..n |-> TableRow(perm[k], n, eg, mz_dir, [j \in 1..n |-> 0], iso)] :
                perm \in Permutations(1..n),
                eg \in (IF sel = "Hybrid" THEN EgAscending(n) ELSE [1..n -> EgIds]),
                iso \in (IF sel = "Hybrid" THEN [1..n -> 0..1] ELSE {[j \in 1..n |-> 1]}),
                mz_dir \in {"asc", "desc"}} :
           n \in 1..MaxRows}

\* the selector after __init__ on a table whose rows are in any order: the
\* MS1-centric __init__ keeps the table, the Hybrid __init__ sorts it by
\* precursor_idx; every window of the raw data holds the same number of peaks
ShuffleInit ==
    /\ \/ /\ selection = "MS1Centric"
          /\ input_table \in ShuffledTables("MS1Centric")
          /\ precursors_flat = input_table
          /\ fragments_flat = <<>>
          /\ jit_data \in {d \in InputData : \A g, h \in EgIds : d.peaks[g] = d.peaks[h]}
       \/ /\ selection = "Hybrid"
          /\ input_table \in ShuffledTables("Hybrid")
          /\ precursors_flat = sort_values_precursor_idx(input_table)
          /\ fragments_flat = <<[mz |-> 1, intensity |-> 1]>>
          /\ jit_data \in {d \in InputData : \A g \in EgIds : d.peaks[g] = 0}
    /\ debug = FALSE
    /\ kernel = <<KernelSize, KernelSize>>
    /\ fragment_container = <<>>
    /\ thread_count = 1
    /\ eg_container = <<>>
    /\ pc = "call"
    /\ workers = <<>>
    /\ writers = <<>>
    /\ finish_order = <<>>
    /\ df = <<>>
    /\ error = "none"

\* elution_group_container = self.assemble_elution_groups().  With no row the list
\* egs is empty: nb.typed.List([]) has no item type, and a jitclass constructor
\* either rejects it (TypeError) or, on versions that accept it, yields an empty
\* container.
MS1_AssembleElutionGroups ==
    /\ pc = "call"
    /\ selection = "MS1Centric"
    /\ LET res == assemble_elution_groups(precursors_flat) IN
        /\ precursors_flat' = res.table
        /\ \/ /\ eg_container' = res.egs
              /\ pc' = "start"
              /\ UNCHANGED error
           \/ /\ Len(res.egs) = 0
              /\ eg_container' = <<>>
              /\ pc' = "error"
              /\ error' = "TypeError"
    /\ UNCHANGED <<selection, input_table, debug, fragments_flat, jit_data, kernel, fragment_container,
                   thread_count, workers, writers, finish_order, df>>
    /\ UNCHANGED nonRunVars

\* a thread of the executor before its first index
FreshWorker ==
    [state |-> "ready", pos |-> 0, step |-> "none", i |-> 0,
     candidate_idx |-> 0, cand |-> <<>>]

\* faulty variant: the debug flag does not shorten the iteration
iterator_len_all(container, debug_mode) == Len(container)

\* __call__: iterator_len = min(10, len(elution_group_container)) if self.debug
\* else len(elution_group_container)
iterator_len(container, debug_mode) ==
    IF debug_mode
    THEN (IF Len(container) < DebugGroups THEN Len(container) ELSE DebugGroups)
    ELSE Len(container)

\* __call__: thread_count = 1 if self.debug else self.thread_count
executor_threads(count, debug_mode) == IF debug_mode THEN 1 ELSE count

\* faulty variant: every thread iterates over all indices
stripe_index_shared(thread_id, pos, threads) == pos

\* pjit hands thread thread_id the indices iterable[thread_id::thread_count]
stripe_index(thread_id, pos, threads) == thread_id + pos * threads

\* faulty variant: every index processes the first group
executor_target_first(idx) == 1

\* _executor: eg_container[i], as a position of the sequence
executor_target(idx) == idx + 1

\* the container position thread w is working on
target_of(w) ==
    executor_target(stripe_index(w, workers[w].pos, executor_threads(thread_count, debug)))

\* faulty variant: the caller does not wait
threads_joined_nowait(ws) == TRUE

\* pjit returns when every thread has ended
threads_joined(ws) == \A w \in DOMAIN ws : ws[w].state \in {"finished", "raised"}

\* expand_if_odd: a limit pair with an odd difference gets its upper limit raised
expand_if_odd(limits) ==
    IF (limits[2] - limits[1]) % 2 = 1 THEN <<limits[1], limits[2] + 1>> ELSE limits

\* utils.make_slice_1d: (start, stop) becomes the one-row slice (start, stop, 1)
make_slice_1d(limits) == << <<limits[1], limits[2], 1>> >>

\* faulty variant: room for one candidate per precursor
n_candidates_one(n_precursors, count) == n_precursors

\* process: n_candidates = len(self.precursor_idx) * candidate_count
n_candidates(n_precursors, count) == n_precursors * count

\* utils.find_peaks(smooth_precursor, top_n): the number of peaks returned, at
\* most top_n of those the window holds
find_peaks_count(available, top_n) == IF available < top_n THEN available ELSE top_n

\* the rows of candidate_scan_limit after the stores of one precursor's peaks (a
\* row stands for the limits of the peak of rank j of precursor idx: <<idx, j>>);
\* a store beyond the allocated rows does not reach the array
store_limits(limits, start, entries) ==
    [r \in 1..Len(limits) |->
        IF r > start /\ r <= start + Len(entries) THEN entries[r - start] ELSE limits[r]]

\* the pjit call of __call__: the threads are started
R_Start ==
    /\ pc = "start"
    /\ workers' = [w \in 0..(executor_threads(thread_count, debug) - 1) |-> FreshWorker]
    /\ writers' = [p \in 1..iterator_len(eg_container, debug) |-> {}]
    /\ pc' = "run"
    /\ UNCHANGED <<selection, input_table, debug, precursors_flat, fragments_flat, jit_data, kernel, fragment_container,
                   thread_count, eg_container, finish_order, df, error>>
    /\ UNCHANGED nonRunVars

\* a thread takes the next index of its stripe, or ends
W_Next(w) ==
    /\ pc = "run"
    /\ workers[w].state = "ready"
    /\ IF stripe_index(w, workers[w].pos, executor_threads(thread_count, debug))
            < iterator_len(eg_container, debug)
       THEN workers' = [workers EXCEPT ![w].state = "busy",
                                       ![w].step = IF selection = "Hybrid" THEN "sort" ELSE "limits",
                                       ![w].i = 0,
                                       ![w].candidate_idx = 0,
                                       ![w].cand = <<>>]
       ELSE workers' = [workers EXCEPT ![w].state = "finished"]
    /\ UNCHANGED <<selection, input_table, debug, precursors_flat, fragments_flat, jit_data, kernel, fragment_container,
                   thread_count, eg_container, pc, writers, finish_order, df, error>>
    /\ UNCHANGED nonRunVars

\* ElutionGroup.process: determine_frame_limits, determine_scan_limits,
\* determine_tof_limits
MS1_Limits(w) ==
    /\ pc = "run"
    /\ selection = "MS1Centric"
    /\ workers[w].state = "busy"
    /\ workers[w].step = "limits"
    /\ LET t == target_of(w) IN
        /\ eg_container' = [eg_container EXCEPT
              ![t].frame_limits = make_slice_1d(expand_if_odd(jit_data.frame_indices)),
              ![t].scan_limits = make_slice_1d(expand_if_odd(jit_data.scan_indices)),
              ![t].tof_limits = [k \in 1..Len(eg_container[t].mz) |-> eg_container[t].mz[k]]]
        /\ writers' = [writers EXCEPT ![t] = @ \cup {w}]
    /\ workers' = [workers EXCEPT ![w].step = "dense"]
    /\ UNCHANGED <<selection, input_table, debug, precursors_flat, fragments_flat, jit_data, kernel, fragment_container,
                   thread_count, pc, finish_order, df, error>>
    /\ UNCHANGED nonRunVars

\* ElutionGroup.process: get_dense, fourier_filter, the empty lists and the
\* allocation of candidate_scan_limit
MS1_Dense(w) ==
    /\ pc = "run"
    /\ selection = "MS1Centric"
    /\ workers[w].state = "busy"
    /\ workers[w].step = "dense"
    /\ LET t == target_of(w)
           n == n_candidates(Len(eg_container[t].precursor_idx), candidate_count)
       IN
        /\ eg_container' = [eg_container EXCEPT
              ![t].candidate_scan_limit = [r \in 1..n |-> <<0, 0>>]]
        /\ writers' = [writers EXCEPT ![t] = @ \cup {w}]
    /\ workers' = [workers EXCEPT ![w].step = "precursor",
                                  ![w].i = 0,
                                  ![w].candidate_idx = 0,
                                  ![w].cand = <<>>]
    /\ UNCHANGED <<selection, input_table, debug, precursors_flat, fragments_flat, jit_data, kernel, fragment_container,
                   thread_count, pc, finish_order, df, error>>
    /\ UNCHANGED nonRunVars

\* ElutionGroup.process: one round of the loop over self.precursor_idx, with the
\* loop over the peaks of the precursor; rank is the position j of the peak
MS1_Precursor(w) ==
    /\ pc = "run"
    /\ selection = "MS1Centric"
    /\ workers[w].state = "busy"
    /\ workers[w].step = "precursor"
    /\ workers[w].i < Len(eg_container[target_of(w)].precursor_idx)
    /\ LET t == target_of(w)
           eg == eg_container[t]
           idx == eg.precursor_idx[workers[w].i + 1]
           found == find_peaks_count(jit_data.peaks[eg.elution_group_idx], candidate_count)
           entries == [j \in 1..found |-> <<idx, j - 1>>]
       IN
        /\ eg_container' = [eg_container EXCEPT
              ![t].candidate_scan_limit =
                  store_limits(eg.candidate_scan_limit, workers[w].candidate_idx, entries)]
        /\ writers' = [writers EXCEPT ![t] = @ \cup {w}]
        /\ workers' = [workers EXCEPT ![w].i = @ + 1,
                                      ![w].candidate_idx = @ + found,
                                      ![w].cand = @ \o entries]
    /\ UNCHANGED <<selection, input_table, debug, precursors_flat, fragments_flat, jit_data, kernel, fragment_container,
                   thread_count, pc, finish_order, df, error>>
    /\ UNCHANGED nonRunVars

\* ElutionGroup.process: the lists become the candidate arrays, the limit arrays
\* are cut to candidate_idx rows, and the call returns
MS1_Store(w) ==
    /\ pc = "run"
    /\ selection = "MS1Centric"
    /\ workers[w].state = "busy"
    /\ workers[w].step = "precursor"
    /\ workers[w].i = Len(eg_container[target_of(w)].precursor_idx)
    /\ LET t == target_of(w)
           cand == workers[w].cand
           limits == eg_container[t].candidate_scan_limit
           kept == IF workers[w].candidate_idx < Len(limits)
                   THEN workers[w].candidate_idx ELSE Len(limits)
       IN
        /\ eg_container' = [eg_container EXCEPT
              ![t].candidate_precursor_idx = [k \in 1..Len(cand) |-> cand[k][1]],
              ![t].candidate_rank = [k \in 1..Len(cand) |-> cand[k][2]],
              ![t].candidate_scan_limit = SubSeq(limits, 1, kept)]
        /\ writers' = [writers EXCEPT ![t] = @ \cup {w}]
        /\ finish_order' = Append(finish_order, t)
    /\ workers' = [workers EXCEPT ![w].state = "ready",
                                  ![w].step = "none",
                                  ![w].pos = @ + 1]
    /\ UNCHANGED <<selection, input_table, debug, precursors_flat, fragments_flat, jit_data, kernel, fragment_container,
                   thread_count, pc, df, error>>
    /\ UNCHANGED nonRunVars

RECURSIVE concatenate(_)
\* np.concatenate over the list of per-group arrays
concatenate(arrays) ==
    IF Len(arrays) = 0 THEN <<>> ELSE Head(arrays) \o concatenate(Tail(arrays))

(***************************************************************************)
(* The Hybrid selector.  utils.calculate_score_groups and                  *)
(* fragments.get_ion_group_mapping are not part of the sources at hand and *)
(* are modelled from the specification: score-group ids are consecutive    *)
(* integers from 0, one per (elution group, channel) when channels are not *)
(* grouped, and the table comes back sorted by them; the ion-group mapping *)
(* yields the distinct ions of positive intensity.                         *)
(***************************************************************************)
\* utils.calculate_score_groups(precursors_flat, group_channels=False)
calculate_score_groups(table) ==
    LET key(r) == r.elution_group_idx * 2 + r.channel
        sorted == sort_by(table, [k \in 1..Len(table) |-> key(table[k])])
        keys == {key(table[k]) : k \in 1..Len(table)}
    IN [k \in 1..Len(sorted) |->
          [precursor_idx     |-> sorted[k].precursor_idx,
           elution_group_idx |-> sorted[k].elution_group_idx,
           channel           |-> sorted[k].channel,
           rt                |-> sorted[k].rt,
           mz                |-> sorted[k].mz,
           i_0               |-> sorted[k].i_0,
           score_group_idx   |-> Cardinality({x \in keys : x < key(sorted[k])})]]

\* HybridElutionGroup.__init__ for the rows of one run; the fields process fills
\* are empty until then.  exit names the return statement that ended process.
HybridElutionGroup(score_group, rows) ==
    [score_group_idx             |-> score_group,
     elution_group_idx           |-> rows[1].elution_group_idx,
     rt                          |-> rows[1].rt,
     precursor_idx               |-> [k \in 1..Len(rows) |-> rows[k].precursor_idx],
     precursor_channel           |-> [k \in 1..Len(rows) |-> rows[k].channel],
     precursor_mz                |-> [k \in 1..Len(rows) |-> rows[k].mz],
     precursor_isotope_intensity |-> [k \in 1..Len(rows) |-> <<rows[k].i_0>>],
     precursor_abundance         |-> <<>>,
     fragments                   |-> <<>>,
     frame_limits                |-> <<>>,
     scan_limits                 |-> <<>>,
     score_group_fragment_mz     |-> <<>>,
     score_group_precursor_mz    |-> <<>>,
     dense_fragments             |-> <<>>,
     dense_precursors            |-> <<>>,
     candidates                  |-> <<>>,
     exit                        |-> "none"]

RECURSIVE assemble_loop(_, _, _, _, _)
\* the while loop of assemble_njit (indices as in the code, from 0): a group is
\* appended when the score group changes at score_group_stop
assemble_loop(table, score_group, score_group_start, score_group_stop, eg_list) ==
    IF score_group_stop < Len(table) - 1
    THEN LET stop == score_group_stop + 1 IN
         IF table[stop + 1].score_group_idx # score_group
         THEN assemble_loop(table, table[stop + 1].score_group_idx, stop, stop,
                  Append(eg_list,
                         HybridElutionGroup(score_group,
                                            SubSeq(table, score_group_start + 1, stop))))
         ELSE assemble_loop(table, score_group, score_group_start, stop, eg_list)
    ELSE eg_list

\* assemble_njit for a table with at least one row
assemble_njit(table) == assemble_loop(table, table[1].score_group_idx, 0, 0, <<>>)

\* HybridElutionGroup.sort_by_mz: precursor_mz and precursor_idx in the order of
\* np.argsort(precursor_mz)
hybrid_sort_by_mz(eg) ==
    LET n == Len(eg.precursor_mz)
        rows == [k \in 1..n |-> [mz |-> eg.precursor_mz[k], idx |-> eg.precursor_idx[k]]]
        sorted == sort_by(rows, eg.precursor_mz)
    IN [eg EXCEPT !.precursor_mz = [k \in 1..n |-> sorted[k].mz],
                  !.precursor_idx = [k \in 1..n |-> sorted[k].idx]]

\* HybridElutionGroup.trim_isotopes: an isotope column stays when its mean over
\* the precursors is above 0.1
trim_isotopes(intensity) ==
    LET n == Len(intensity)
        cols == IF n = 0 THEN 0 ELSE Len(intensity[1])
        total(c) == Cardinality({k \in 1..n : intensity[k][c] = 1})
        keep(c) == total(c) * 10 > n
        kept == SelectSeq([c \in 1..cols |-> c], keep)
    IN [k \in 1..n |-> [c \in 1..Len(kept) |-> intensity[k][kept[c]]]]

\* fragments.get_ion_group_mapping: the ions of positive intensity, each once
get_ion_group_mapping(mz, intensity) ==
    LET ions == {mz[k] : k \in {n \in 1..Len(mz) : intensity[n] > 0}}
    IN [r \in 1..Cardinality(ions) |->
            CHOOSE x \in ions : Cardinality({y \in ions : y < x}) = r - 1]

\* the isotope m/z and intensities of a group, flattened
isotope_mz_flat(eg) ==
    concatenate([k \in 1..Len(eg.precursor_mz) |->
                    [c \in 1..Len(eg.precursor_isotope_intensity[k]) |-> eg.precursor_mz[k]]])

isotope_intensity_flat(eg) ==
    concatenate([k \in 1..Len(eg.precursor_mz) |-> eg.precursor_isotope_intensity[k]])

\* assemble_push(...).sum(axis=2): (2, n_ions, n_scans, n_cycles), or the empty
\* tensor when no push was selected
dense_shape_of(n_ions, window) ==
    IF window = <<0, 0>> THEN <<0, 0, 0, 0>> ELSE <<2, n_ions, window[1], window[2]>>

\* __call__ up to the executor: assemble_score_groups returns None for a table
\* without rows and len(None) raises TypeError; otherwise the container comes from
\* assemble_njit and the fragment container from the fragment table
HYB_AssembleScoreGroups ==
    /\ pc = "call"
    /\ selection = "Hybrid"
    /\ fragment_container' = fragments_flat
    /\ IF Len(precursors_flat) = 0
       THEN /\ eg_container' = <<>>
            /\ pc' = "error"
            /\ error' = "TypeError"
       ELSE /\ eg_container' = assemble_njit(calculate_score_groups(precursors_flat))
            /\ pc' = "start"
            /\ UNCHANGED error
    /\ UNCHANGED <<selection, input_table, debug, precursors_flat, fragments_flat, jit_data, kernel,
                   thread_count, workers, writers, finish_order, df>>
    /\ UNCHANGED nonRunVars

\* HybridElutionGroup.process: precursor_abundance, sort_by_mz, trim_isotopes and
\* the slice of the fragment container
HYB_Sort(w) ==
    /\ pc = "run"
    /\ selection = "Hybrid"
    /\ workers[w].state = "busy"
    /\ workers[w].step = "sort"
    /\ LET t == target_of(w)
           eg == eg_container[t]
           sorted == hybrid_sort_by_mz(eg)
       IN
        /\ eg_container' = [eg_container EXCEPT ![t] =
              [sorted EXCEPT
                  !.precursor_abundance =
                      [k \in 1..Len(eg.precursor_channel) |->
                          IF eg.precursor_channel[k] = 0 THEN 10 ELSE 1],
                  !.precursor_isotope_intensity = trim_isotopes(eg.precursor_isotope_intensity),
                  !.fragments = fragment_container]]
        /\ writers' = [writers EXCEPT ![t] = @ \cup {w}]
    /\ workers' = [workers EXCEPT ![w].step = "limits"]
    /\ UNCHANGED <<selection, input_table, debug, precursors_flat, fragments_flat, jit_data, kernel,
                   fragment_container, thread_count, pc, finish_order, df, error>>
    /\ UNCHANGED nonRunVars

\* HybridElutionGroup.process: determine_frame_limits, determine_scan_limits
HYB_Limits(w) ==
    /\ pc = "run"
    /\ selection = "Hybrid"
    /\ workers[w].state = "busy"
    /\ workers[w].step = "limits"
    /\ LET t == target_of(w) IN
        /\ eg_container' = [eg_container EXCEPT
              ![t].frame_limits = make_slice_1d(jit_data.frame_indices),
              ![t].scan_limits = make_slice_1d(jit_data.scan_indices)]
        /\ writers' = [writers EXCEPT ![t] = @ \cup {w}]
    /\ workers' = [workers EXCEPT ![w].step = "ions"]
    /\ UNCHANGED <<selection, input_table, debug, precursors_flat, fragments_flat, jit_data, kernel,
                   fragment_container, thread_count, pc, finish_order, df, error>>
    /\ UNCHANGED nonRunVars

\* HybridElutionGroup.process: the two ion-group mappings; process returns when
\* one of them is empty
HYB_Ions(w) ==
    /\ pc = "run"
    /\ selection = "Hybrid"
    /\ workers[w].state = "busy"
    /\ workers[w].step = "ions"
    /\ LET t == target_of(w)
           eg == eg_container[t]
           fragment_mz == get_ion_group_mapping(
                              [k \in 1..Len(eg.fragments) |-> eg.fragments[k].mz],
                              [k \in 1..Len(eg.fragments) |-> eg.fragments[k].intensity])
           precursor_ions == get_ion_group_mapping(isotope_mz_flat(eg), isotope_intensity_flat(eg))
           returns == Len(fragment_mz) = 0 \/ Len(precursor_ions) = 0
       IN
        /\ eg_container' = [eg_container EXCEPT
              ![t].score_group_fragment_mz = fragment_mz,
              ![t].score_group_precursor_mz =
                  IF Len(fragment_mz) = 0 THEN <<>> ELSE precursor_ions,
              ![t].exit = IF Len(fragment_mz) = 0 THEN "no_fragments"
                          ELSE IF Len(precursor_ions) = 0 THEN "no_precursors"
                          ELSE "none"]
        /\ writers' = [writers EXCEPT ![t] = @ \cup {w}]
        /\ finish_order' = IF returns THEN Append(finish_order, t) ELSE finish_order
        /\ workers' = IF returns
                      THEN [workers EXCEPT ![w].state = "ready",
                                           ![w].step = "none",
                                           ![w].pos = @ + 1]
                      ELSE [workers EXCEPT ![w].step = "dense"]
    /\ UNCHANGED <<selection, input_table, debug, precursors_flat, fragments_flat, jit_data, kernel,
                   fragment_container, thread_count, pc, df, error>>
    /\ UNCHANGED nonRunVars

\* HybridElutionGroup.process from calculate_score_group_limits to the return
\* that follows the assignment of dense_fragments and dense_precursors; window is
\* the (scans, cycles) extent of what the raw data holds under the limits.  Nothing
\* behind that return is executed: no score is built and self.candidates is not
\* assigned.  With bounds checking calculate_score_group_limits raises and the
\* thread ends with the exception.
HYB_Dense(w) ==
    /\ pc = "run"
    /\ selection = "Hybrid"
    /\ workers[w].state = "busy"
    /\ workers[w].step = "dense"
    /\ LET t == target_of(w)
           eg == eg_container[t]
           ions == eg.score_group_precursor_mz
       IN \E out \in calculate_score_group_limits(ions, [k \in 1..Len(ions) |-> 1]),
             window \in WindowShapes :
            IF out.error = "none"
            THEN /\ eg_container' = [eg_container EXCEPT
                      ![t].dense_fragments =
                          dense_shape_of(Len(eg.score_group_fragment_mz), window),
                      ![t].dense_precursors = dense_shape_of(Len(ions), window),
                      ![t].exit = "after_dense"]
                 /\ writers' = [writers EXCEPT ![t] = @ \cup {w}]
                 /\ finish_order' = Append(finish_order, t)
                 /\ workers' = [workers EXCEPT ![w].state = "ready",
                                               ![w].step = "none",
                                               ![w].pos = @ + 1]
            ELSE /\ workers' = [workers EXCEPT ![w].state = "raised"]
                 /\ UNCHANGED <<eg_container, writers, finish_order>>
    /\ UNCHANGED <<selection, input_table, debug, precursors_flat, fragments_flat, jit_data, kernel,
                   fragment_container, thread_count, pc, df, error>>
    /\ UNCHANGED nonRunVars

\* __call__: return elution_group_container (no candidate table is assembled)
HYB_Return ==
    /\ pc = "joined"
    /\ selection = "Hybrid"
    /\ pc' = "done"
    /\ UNCHANGED <<selection, input_table, debug, precursors_flat, fragments_flat, jit_data, kernel,
                   fragment_container, thread_count, eg_container, workers, writers,
                   finish_order, df, error>>
    /\ UNCHANGED nonRunVars

\* the pjit call returns
R_Join ==
    /\ pc = "run"
    /\ threads_joined(workers)
    /\ pc' = "joined"
    /\ UNCHANGED <<selection, input_table, debug, precursors_flat, fragments_flat, jit_data, kernel, fragment_container,
                   thread_count, eg_container, workers, writers, finish_order, df, error>>
    /\ UNCHANGED nonRunVars

\* assemble_candidates: the rows a group contributes
candidate_rows(eg) ==
    [k \in 1..Len(eg.candidate_precursor_idx) |->
        [elution_group_idx |-> eg.elution_group_idx,
         precursor_idx     |-> eg.candidate_precursor_idx[k],
         rank              |-> eg.candidate_rank[k]]]

\* assemble_candidates: a group without scan_limits has not been processed and
\* is left out; np.concatenate raises ValueError for an empty list, otherwise the
\* table has the groups' rows in container order
assemble_candidates(container) ==
    LET processed(eg) == Len(eg.scan_limits) # 0
        kept == SelectSeq(container, processed)
        arrays == [p \in 1..Len(kept) |-> candidate_rows(kept[p])]
    IN IF Len(arrays) = 0
       THEN [error |-> "ValueError", df |-> <<>>]
       ELSE [error |-> "none", df |-> concatenate(arrays)]

\* df = self.assemble_candidates(elution_group_container) and the return of df
MS1_AssembleCandidates ==
    /\ pc = "joined"
    /\ selection = "MS1Centric"
    /\ LET res == assemble_candidates(eg_container) IN
        /\ df' = res.df
        /\ error' = res.error
        /\ pc' = IF res.error = "none" THEN "done" ELSE "error"
    /\ UNCHANGED <<selection, input_table, debug, precursors_flat, fragments_flat, jit_data, kernel, fragment_container,
                   thread_count, eg_container, workers, writers, finish_order>>
    /\ UNCHANGED nonRunVars

RunNext ==
    \/ MS1_AssembleElutionGroups
    \/ HYB_AssembleScoreGroups
    \/ \E w \in DOMAIN workers : HYB_Sort(w)
    \/ \E w \in DOMAIN workers : HYB_Limits(w)
    \/ \E w \in DOMAIN workers : HYB_Ions(w)
    \/ \E w \in DOMAIN workers : HYB_Dense(w)
    \/ HYB_Return
    \/ R_Start
    \/ \E w \in DOMAIN workers : W_Next(w)
    \/ \E w \in DOMAIN workers : MS1_Limits(w)
    \/ \E w \in DOMAIN workers : MS1_Dense(w)
    \/ \E w \in DOMAIN workers : MS1_Precursor(w)
    \/ \E w \in DOMAIN workers : MS1_Store(w)
    \/ R_Join
    \/ MS1_AssembleCandidates

(***************************************************************************)
(* Claims on the MS1-centric run.                                          *)
(***************************************************************************)
\* the ranks, in stored order, of the candidates a sequence of (precursor, rank)
\* pairs holds for precursor p
ranks_of(pairs, p) ==
    LET of_p(c) == c[1] = p
        mine == SelectSeq(pairs, of_p)
    IN [k \in 1..Len(mine) |-> mine[k][2]]

\* the candidates a group stores, as (precursor, rank) pairs
stored_pairs(eg) ==
    [k \in 1..Len(eg.candidate_precursor_idx) |->
        <<eg.candidate_precursor_idx[k], eg.candidate_rank[k]>>]

\* ranks 0..k-1 in this order, none missing, k at most candidate_count
ranks_complete(ranks) ==
    /\ Len(ranks) <= candidate_count
    /\ \A k \in 1..Len(ranks) : ranks[k] = k - 1

eg_ascending(table) ==
    \A r \in 1..Len(table), s \in 1..Len(table) :
        r < s => table[r].elution_group_idx <= table[s].elution_group_idx

mz_of(p) ==
    LET k == CHOOSE k \in 1..Len(precursors_flat) : precursors_flat[k].precursor_idx = p
    IN precursors_flat[k].mz

C6_AssembledAfterWorkers ==
    (selection = "MS1Centric" /\ pc = "done") =>
        /\ \A w \in DOMAIN workers : workers[w].state = "finished"
        /\ \A t \in 1..Len(eg_container) : t \in Range(finish_order)
        /\ eg_ascending(df)
        /\ df = concatenate([t \in 1..Len(eg_container) |-> candidate_rows(eg_container[t])])

\* C6 witness: the table holds rows of two groups, and the second group was
\* finished before the first
C6_Witness ==
    /\ selection = "MS1Centric"
    /\ pc = "done"
    /\ finish_order = <<2, 1>>
    /\ \E r \in 1..Len(df), s \in 1..Len(df) :
          df[r].elution_group_idx < df[s].elution_group_idx

\* the rows the table must have, from the inputs alone: every precursor has the
\* first min(peaks, candidate_count) ranks
reference_rows ==
    {[elution_group_idx |-> precursors_flat[k].elution_group_idx,
      precursor_idx     |-> precursors_flat[k].precursor_idx,
      rank              |-> j] :
        k \in 1..Len(precursors_flat), j \in 0..(candidate_count - 1)}
    \cap
    {row \in [elution_group_idx : EgIds, precursor_idx : 1..MaxRows, rank : 0..(candidate_count - 1)] :
        row.rank < jit_data.peaks[row.elution_group_idx]}

\* row a comes before row b: by group, then by m/z of the precursor, then by rank
row_before(a, b) ==
    \/ a.elution_group_idx < b.elution_group_idx
    \/ /\ a.elution_group_idx = b.elution_group_idx
       /\ \/ mz_of(a.precursor_idx) < mz_of(b.precursor_idx)
          \/ a.precursor_idx = b.precursor_idx /\ a.rank < b.rank

\* the table as a function of the inputs
reference_table ==
    [r \in 1..Cardinality(reference_rows) |->
        CHOOSE a \in reference_rows :
            Cardinality({b \in reference_rows : row_before(b, a)}) = r - 1]

\* C7: the output is a function of the inputs: whatever the thread count and the
\* interleaving of the workers, a run ends with the same table, and it fails only
\* for the table without rows.
C7_Deterministic ==
    selection = "MS1Centric" =>
        /\ pc = "done" => df = reference_table
        /\ pc = "error" => Len(precursors_flat) = 0

\* C7 witness: a run of several threads in which the groups were finished out of
\* order ended with the table of the inputs, of rows of more than one precursor
C7_Witness ==
    /\ selection = "MS1Centric"
    /\ pc = "done"
    /\ thread_count > 1
    /\ Len(finish_order) > 1
    /\ finish_order[1] > finish_order[2]
    /\ Len(df) > candidate_count
    /\ df = reference_table

(***************************************************************************)
(* Claims on the workers and on the Hybrid run.                            *)
(***************************************************************************)
\* a step of the run leaves the shared inputs alone, and a group that changes is
\* the group at the index of the thread that took the step
OwnGroupOnly ==
    pc = "run" =>
        /\ jit_data' = jit_data
        /\ kernel' = kernel
        /\ fragment_container' = fragment_container
        /\ precursors_flat' = precursors_flat
        /\ Len(eg_container') = Len(eg_container)
        /\ \A t \in 1..Len(eg_container) :
              eg_container'[t] # eg_container[t] =>
                  \E w \in DOMAIN workers :
                      /\ workers'[w] # workers[w]
                      /\ workers[w].state = "busy"
                      /\ w + workers[w].pos * thread_count + 1 = t

C9_EmptyTableNoError ==
    (selection # "none" /\ Len(precursors_flat) = 0) =>
        /\ error = "none"
        /\ pc # "error"

\* the fragment window of a group is smaller than the kernel in a dimension
window_smaller(eg) ==
    \/ eg.dense_fragments[3] < kernel[1]
    \/ eg.dense_fragments[4] < kernel[2]

\* C10 as stated: a group is ended at its fragment window, silently and without
\* candidates, exactly when a dimension of the window is smaller than the kernel;
\* a window that is not smaller is not ended there.
C10_SkippedIffSmaller ==
    selection = "Hybrid" =>
        \A t \in 1..Len(eg_container) :
            Len(eg_container[t].dense_fragments) # 0 =>
                (eg_container[t].exit = "after_dense" <=> window_smaller(eg_container[t]))

\* the difference stop - start of a one-dimensional slice
slice_size(limits) == limits[1][2] - limits[1][1]

\* C13 as stated: the frame limits a group of either selector derives from its
\* rt window have an even stop - start; an odd range of frame indices is
\* expanded by 1 at the stop and an even range is left unchanged.
C13_FrameLimitsEven ==
    \A t \in 1..Len(eg_container) :
        Len(eg_container[t].frame_limits) # 0 =>
            /\ slice_size(eg_container[t].frame_limits) % 2 = 0
            /\ eg_container[t].frame_limits[1][1] = jit_data.frame_indices[1]
            /\ eg_container[t].frame_limits[1][2] =
                   jit_data.frame_indices[2]
                   + ((jit_data.frame_indices[2] - jit_data.frame_indices[1]) % 2)

\* the number of groups a debug run iterates over
debug_len == IF Len(eg_container) < DebugGroups THEN Len(eg_container) ELSE DebugGroups

\* a group no call of process has touched
unprocessed(eg) ==
    /\ Len(eg.frame_limits) = 0
    /\ Len(eg.scan_limits) = 0
    /\ IF selection = "MS1Centric"
       THEN Len(eg.candidate_precursor_idx) = 0 /\ Len(eg.candidate_rank) = 0
       ELSE eg.exit = "none" /\ Len(eg.dense_fragments) = 0

\* C14: in debug mode one worker runs over the first min(10, n) groups of the
\* container in order; a group behind them is never touched; the MS1-centric
\* table holds the candidates of the processed groups only and the call ends
\* without error.
C14_DebugFirstTen ==
    (debug /\ pc \in {"run", "joined", "done", "error"}) =>
        /\ DOMAIN workers = {0}
        /\ \A t \in 1..Len(eg_container) : t > debug_len => unprocessed(eg_container[t])
        /\ \A k \in 1..Len(finish_order) : finish_order[k] = k /\ k <= debug_len
        /\ (pc \in {"joined", "done"} /\ workers[0].state = "finished") =>
               Len(finish_order) = debug_len
        /\ pc # "error" /\ error = "none"
        /\ (selection = "MS1Centric" /\ pc = "done") =>
               df = concatenate([t \in 1..debug_len |-> candidate_rows(eg_container[t])])

\* a debug run of the MS1-centric selector over more than ten groups has
\* returned a table with rows
C14_Witness ==
    /\ debug
    /\ selection = "MS1Centric"
    /\ pc = "done"
    /\ Len(eg_container) > DebugGroups
    /\ Len(df) > 0
    /\ unprocessed(eg_container[Len(eg_container)])

\* the rows of a table in the order of precursor_idx (1..n)
canonical(table) ==
    [k \in 1..Len(table) |->
        CHOOSE r \in Range(table) : r.precursor_idx = k]

\* what the constructor of an MS1-centric group is given
assembled_ms1(eg) ==
    [elution_group_idx |-> eg.elution_group_idx, rt |-> eg.rt,
     precursor_idx |-> eg.precursor_idx, mz |-> eg.mz]

\* what the constructor of a Hybrid group is given
assembled_hybrid(eg) ==
    [score_group_idx |-> eg.score_group_idx, elution_group_idx |-> eg.elution_group_idx,
     rt |-> eg.rt, precursor_idx |-> eg.precursor_idx,
     precursor_channel |-> eg.precursor_channel, precursor_mz |-> eg.precursor_mz,
     precursor_isotope_intensity |-> eg.precursor_isotope_intensity]

\* C15: the order of the rows of the precursor table does not matter: the
\* assembled groups (the shared rt and the per-precursor arrays) are those of the
\* table in the order of precursor_idx, and so is the candidate table.
C15_RowOrderIrrelevant ==
    /\ (selection = "MS1Centric" /\ pc \notin {"call", "error"}) =>
          LET ref == assemble_elution_groups(canonical(input_table)).egs IN
            /\ Len(eg_container) = Len(ref)
            /\ \A t \in 1..Len(ref) : assembled_ms1(eg_container[t]) = assembled_ms1(ref[t])
    /\ (selection = "MS1Centric" /\ pc = "done") => df = reference_table
    /\ (selection = "Hybrid" /\ pc = "start") =>
          LET ref == assemble_njit(calculate_score_groups(canonical(input_table))) IN
            /\ Len(eg_container) = Len(ref)
            /\ \A t \in 1..Len(ref) :
                  assembled_hybrid(eg_container[t]) = assembled_hybrid(ref[t])

\* the rows of the input were not in the order of precursor_idx
shuffled_input == input_table # canonical(input_table)

\* a run on a table out of order has assembled a group of several precursors
\* and returned a candidate table with rows
C15_Witness ==
    /\ shuffled_input
    /\ selection = "MS1Centric"
    /\ pc = "done"
    /\ Len(df) > 1
    /\ \E t \in 1..Len(eg_container) : Len(eg_container[t].precursor_idx) > 1

\* the row of the precursor table for precursor p
row_of(p) ==
    CHOOSE r \in Range(precursors_flat) : r.precursor_idx = p

\* C16 as stated: after the sort step of a group its precursor m/z ascend and
\* every per-precursor array is in the same order: position k of each array
\* holds the value of the precursor named at position k of precursor_idx (the
\* isotope rows as far as trim_isotopes has kept their column).
C16_SortedTogether ==
    /\ selection = "MS1Centric" =>
          \A t \in 1..Len(eg_container) :
              LET eg == eg_container[t] IN
              \A k \in 1..Len(eg.precursor_idx) :
                  /\ eg.mz[k] = row_of(eg.precursor_idx[k]).mz
                  /\ k > 1 => eg.mz[k - 1] <= eg.mz[k]
    /\ selection = "Hybrid" =>
          \A t \in 1..Len(eg_container) :
              LET eg == eg_container[t] IN
              Len(eg.precursor_abundance) # 0 =>
                  \A k \in 1..Len(eg.precursor_idx) :
                      LET row == row_of(eg.precursor_idx[k]) IN
                      /\ eg.precursor_mz[k] = row.mz
                      /\ k > 1 => eg.precursor_mz[k - 1] <= eg.precursor_mz[k]
                      /\ eg.precursor_channel[k] = row.channel
                      /\ eg.precursor_abundance[k] = (IF row.channel = 0 THEN 10 ELSE 1)
                      /\ Len(eg.precursor_isotope_intensity[k]) # 0 =>
                             eg.precursor_isotope_intensity[k] = <<row.i_0>>

(***************************************************************************)
(* Schema validation (validate.py).                                        *)
(***************************************************************************)
\* largest number of schema columns the dataframe lacks
MaxMissing == 2

Req(name, type) == [kind |-> "Required", name |-> name, type |-> type]

Opt(name, type) == [kind |-> "Optional", name |-> name, type |-> type]

\* validate.precursors_flat
precursors_flat_schema ==
    [name |-> "precursors_flat",
     schema |-> <<Req("elution_group_idx", "uint32"),
                  Req("score_group_idx", "uint32"),
                  Req("precursor_idx", "uint32"),
                  Req("channel", "uint32"),
                  Req("decoy", "uint8"),
                  Req("flat_frag_start_idx", "uint32"),
                  Req("flat_frag_stop_idx", "uint32"),
                  Req("charge", "uint8"),
                  Req("rt_library", "float32"),
                  Opt("rt_calibrated", "float32"),
                  Req("mobility_library", "float32"),
                  Opt("mobility_calibrated", "float32"),
                  Req("mz_library", "float32"),
                  Opt("mz_calibrated", "float32"),
                  Opt("i_0", "float32"), Opt("i_1", "float32"), Opt("i_2", "float32"),
                  Opt("i_3", "float32"), Opt("i_4", "float32"), Opt("i_5", "float32"),
                  Opt("i_6", "float32"), Opt("i_7", "float32"), Opt("i_8", "float32"),
                  Opt("i_9", "float32")>>]

\* validate.fragments_flat
fragments_flat_schema ==
    [name |-> "fragments_flat",
     schema |-> <<Req("mz_library", "float32"),
                  Opt("mz_calibrated", "float32"),
                  Req("intensity", "float32"),
                  Req("cardinality", "uint8"),
                  Req("type", "uint8"),
                  Req("loss_type", "uint8"),
                  Req("charge", "uint8"),
                  Req("number", "uint8"),
                  Req("position", "uint8")>>]

\* validate.candidates; its name is "precursors_flat" in the source
candidates_schema ==
    [name |-> "precursors_flat",
     schema |-> <<Req("elution_group_idx", "uint32"),
                  Opt("score_group_idx", "uint32"),
                  Req("precursor_idx", "uint32"),
                  Req("rank", "uint8"),
                  Opt("channel", "uint8"),
                  Req("decoy", "uint8"),
                  Req("flat_frag_start_idx", "uint32"),
                  Req("flat_frag_stop_idx", "uint32"),
                  Req("scan_start", "int64"),
                  Req("scan_stop", "int64"),
                  Req("scan_center", "int64"),
                  Req("frame_start", "int64"),
                  Req("frame_stop", "int64"),
                  Req("frame_center", "int64")>>]

Schemas == {precursors_flat_schema, fragments_flat_schema, candidates_schema}

RECURSIVE SubsetsUpTo(_, _)
\* the subsets of S with at most n elements
SubsetsUpTo(S, n) ==
    IF n = 0 THEN {{}}
    ELSE LET smaller == SubsetsUpTo(S, n - 1)
         IN smaller \cup {sub \cup {x} : sub \in smaller, x \in S}

\* a numeric dtype that differs from the declared one
other_dtype(type) == IF type = "float64" THEN "float32" ELSE "float64"

\* the dataframes handed to a schema: some of its columns are absent, and at most
\* one has another numeric dtype than the declared one
InputFrames(sch) ==
    LET cols == 1..Len(sch.schema) IN
    {[name \in {sch.schema[k].name : k \in cols \ missing} |->
         LET k == CHOOSE k \in cols : sch.schema[k].name = name
         IN IF k \in other THEN other_dtype(sch.schema[k].type) ELSE sch.schema[k].type] :
        missing \in SubsetsUpTo(cols, MaxMissing), other \in {{}} \cup {{k} : k \in cols}}

\* faulty variant: an absent Optional column returns False as well
property_call_strict(property, frame) ==
    IF property.name \in DOMAIN frame
    THEN [result |-> TRUE, df |-> frame]
    ELSE [result |-> FALSE, df |-> frame]

\* Optional.__call__ and Required.__call__: a column that is present is cast to
\* the declared type when its dtype differs; Required returns False for an absent
\* column, Optional returns True
property_call(property, frame) ==
    IF property.name \in DOMAIN frame
    THEN [result |-> TRUE,
          df |-> IF frame[property.name] # property.type
                 THEN [frame EXCEPT ![property.name] = property.type]
                 ELSE frame]
    ELSE [result |-> property.kind = "Optional", df |-> frame]

RECURSIVE schema_loop(_, _, _)
\* Schema.__call__: the loop over self.schema from property i on; the first
\* property that returns False raises the ValueError
schema_loop(sch, frame, i) ==
    IF i > Len(sch.schema)
    THEN [raised |-> FALSE, df |-> frame, error |-> <<>>]
    ELSE LET res == property_call(sch.schema[i], frame) IN
         IF ~res.result
         THEN [raised |-> TRUE, df |-> res.df,
               error |-> [schema |-> sch.name, column |-> sch.schema[i].name]]
         ELSE schema_loop(sch, res.df, i + 1)

ValIdle ==
    /\ v_pc = "idle"
    /\ v_schema = <<>>
    /\ v_input = <<>>
    /\ v_df = <<>>
    /\ v_error = <<>>

ValInit ==
    /\ v_pc = "call"
    /\ v_schema \in Schemas
    /\ v_input \in InputFrames(v_schema)
    /\ v_df = v_input
    /\ v_error = <<>>

\* Schema.__call__(df) returns
V_Return ==
    /\ v_pc = "call"
    /\ LET res == schema_loop(v_schema, v_df, 1) IN
        /\ ~res.raised
        /\ v_df' = res.df
        /\ v_pc' = "returned"
    /\ UNCHANGED <<v_schema, v_input, v_error>>
    /\ UNCHANGED nonValVars

\* Schema.__call__(df) raises
V_Raise ==
    /\ v_pc = "call"
    /\ LET res == schema_loop(v_schema, v_df, 1) IN
        /\ res.raised
        /\ v_df' = res.df
        /\ v_error' = res.error
        /\ v_pc' = "raised"
    /\ UNCHANGED <<v_schema, v_input>>
    /\ UNCHANGED nonValVars

ValNext == V_Return \/ V_Raise

(***************************************************************************)
(* Claims on the schema validation.                                        *)
(***************************************************************************)
\* positions of the Required properties whose column the dataframe lacked
missing_required ==
    {k \in 1..Len(v_schema.schema) :
        /\ v_schema.schema[k].kind = "Required"
        /\ v_schema.schema[k].name \notin DOMAIN v_input}

\* positions of the Required properties whose column came with another dtype
other_dtype_required ==
    {k \in 1..Len(v_schema.schema) :
        /\ v_schema.schema[k].kind = "Required"
        /\ v_schema.schema[k].name \in DOMAIN v_input
        /\ v_input[v_schema.schema[k].name] # v_schema.schema[k].type}

\* C11: Schema.__call__ raises whenever a Required column is absent, the error
\* names the schema and the first missing Required column in schema order, and
\* the absence of an Optional column never raises.
C11_MissingRequiredRaises ==
    v_pc \in {"returned", "raised"} =>
        /\ v_pc = "raised" <=> missing_required # {}
        /\ v_pc = "raised" =>
              v_error = [schema |-> v_schema.name,
                         column |-> v_schema.schema[SetMin(missing_required)].name]
        /\ v_pc = "returned" => v_error = <<>>

\* C11 witness: two Required columns were absent and the error names the one
\* that comes first in the schema
C11_Witness ==
    /\ v_pc = "raised"
    /\ Cardinality(missing_required) > 1
    /\ v_error.column = v_schema.schema[SetMin(missing_required)].name

\* C12 as stated: a Required column that is present with a dtype other than the
\* declared one is fatal: an error is raised and validation does not succeed.
C12_WrongKindFatal ==
    (v_pc \in {"returned", "raised"} /\ other_dtype_required # {}) => v_pc = "raised"

(***************************************************************************)
(* fourier_filter (candidateselection.py): the circular convolution of a   *)
(* layer of the dense stack with the kernel, computed with the real FFT,   *)
(* and the roll that follows.  The transform pair is exact up to rounding: *)
(* irfft2(rfft2(layer) * rfft2(kernel, shape)) is the circular convolution *)
(* of the layer with the kernel padded or cropped to the shape.            *)
(***************************************************************************)
\* largest number of scans and of cycles of a layer
MaxWindow == 4
\* largest number of rows and of columns of a kernel
MaxKernel == 3

\* the number of rows and of columns of a matrix (a sequence of rows)
shape0(m) == Len(m)

shape1(m) == IF Len(m) = 0 THEN 0 ELSE Len(m[1])

\* the element at the indices (x, y) of the code, which count from 0
at(m, x, y) == m[x + 1][y + 1]

\* the kernels: k0 rows and k1 columns of distinct positive weights
Kernels ==
    {[x \in 1..k0 |-> [y \in 1..k1 |-> x + k0 * (y - 1)]] :
        k0 \in 1..MaxKernel, k1 \in 1..MaxKernel}

\* the layers: n0 scans and n1 cycles, one entry of intensity 1
Layers ==
    UNION {{[x \in 1..n0 |-> [y \in 1..n1 |-> IF x = px /\ y = py THEN 1 ELSE 0]] :
                px \in 1..n0, py \in 1..n1} :
           n0 \in 2..MaxWindow, n1 \in 2..MaxWindow}

\* np.fft.rfft2(kernel, shape) takes the kernel padded with zeros, or cropped,
\* to the shape (n0, n1)
kernel_in_shape(k, n0, n1) ==
    [x \in 1..n0 |-> [y \in 1..n1 |->
        IF x <= shape0(k) /\ y <= shape1(k) THEN k[x][y] ELSE 0]]

RECURSIVE sum_seq(_)
\* the sum of a sequence of numbers
sum_seq(q) == IF Len(q) = 0 THEN 0 ELSE q[1] + sum_seq(Tail(q))

\* np.fft.irfft2(np.fft.rfft2(layer) * fourier_filter): the circular convolution
\* of layer[:n0, :n1] with the kernel in that shape
circular_convolution(layer, padded, n0, n1) ==
    [x \in 1..n0 |-> [y \in 1..n1 |->
        sum_seq([i \in 1..(n0 * n1) |->
            LET a == (i - 1) \div n1
                b == (i - 1) % n1
            IN at(padded, a, b) * at(layer, (x - 1 - a) % n0, (y - 1 - b) % n1)])]]

\* the shift of np.roll(smooth_output, -k0//2, axis): the minus sign binds first,
\* and // rounds down
roll_shift(k) == (0 - k) \div 2

\* np.roll along axis 2 (scans) and along axis 3 (cycles)
roll_axis2(m, shift) ==
    [x \in 1..shape0(m) |-> m[((x - 1 - shift) % shape0(m)) + 1]]

roll_axis3(m, shift) ==
    [x \in 1..shape0(m) |-> [y \in 1..shape1(m) |->
        m[x][((y - 1 - shift) % shape1(m)) + 1]]]

\* fourier_filter for one layer of the stack
fourier_filter(layer, k) ==
    LET scan_size == even_size(shape0(layer))
        frame_size == even_size(shape1(layer))
        smooth == circular_convolution(layer,
                      kernel_in_shape(k, scan_size, frame_size),
                      scan_size, frame_size)
    IN roll_axis3(roll_axis2(smooth, roll_shift(shape0(k))),
                  roll_shift(shape1(k)))

FilterIdle ==
    /\ ff_pc = "idle"
    /\ ff_dense = <<>>
    /\ ff_kernel = <<>>
    /\ ff_out = <<>>

\* a layer of a dense stack and a kernel, about to be filtered
FilterInit ==
    /\ ff_pc = "call"
    /\ ff_dense \in Layers
    /\ ff_kernel \in Kernels
    /\ ff_out = <<>>

\* the call of fourier_filter
FF_Call ==
    /\ ff_pc = "call"
    /\ ff_out' = fourier_filter(ff_dense, ff_kernel)
    /\ ff_pc' = "done"
    /\ UNCHANGED <<ff_dense, ff_kernel>>
    /\ UNCHANGED nonFilterVars

FilterNext == FF_Call

\* the circular convolution of the layer with the kernel, before any roll
unrolled ==
    LET n0 == even_size(shape0(ff_dense))
        n1 == even_size(shape1(ff_dense))
    IN circular_convolution(ff_dense, kernel_in_shape(ff_kernel, n0, n1), n0, n1)

\* C17 as stated: for every kernel shape (k0, k1), odd or even, the output is
\* the circular convolution shifted by -floor(k0/2) along the scans and by
\* -floor(k1/2) along the cycles.
C17_ShiftFloorHalf ==
    ff_pc = "done" =>
        LET n0 == shape0(ff_out)
            n1 == shape1(ff_out)
            s0 == shape0(ff_kernel) \div 2
            s1 == shape1(ff_kernel) \div 2
        IN \A x \in 0..(n0 - 1), y \in 0..(n1 - 1) :
              at(ff_out, x, y) = at(unrolled, (x + s0) % n0, (y + s1) % n1)


(***************************************************************************)
(* get_push_indices and assemble_push (hybridselection.py).  The raw data  *)
(* are the transposed sparse matrix of jit_data: for every tof index the   *)
(* entries tof_indptr[tof] .. tof_indptr[tof + 1] - 1, each with its push  *)
(* (push_indices, ascending within a tof index) and its intensity.  A push *)
(* is frame * scan_max_index + scan.  The DIA cycle has two frames of two  *)
(* scans: an MS1 frame and a frame with quadrupole windows.  Channel 1 of  *)
(* the tensor, the mass error, is a float mean and is left out.            *)
(***************************************************************************)
\* largest number of raw entries of a tof index
MaxEntries == 2

\* ascending sequences of at most n members of the set S of numbers
AscendingUpTo(S, n) ==
    {q \in SeqsUpTo(S, n) : \A k \in 2..Len(q) : q[k - 1] < q[k]}

\* the raw data: tof index 0 with any entries, tof index 1 with none or with
\* entries of the same pushes; the intensity of entry idx is idx + 1; the
\* entries of dia_mz_cycle are (frame, scan) = (0, 0), (0, 1), (1, 0), (1, 1), the
\* first frame is MS1 and has precursor cycle 0
RawData ==
    {LET row1 == IF both THEN row0 ELSE <<>> IN
     [scan_max_index      |-> 2,
      zeroth_frame        |-> z,
      cycle_shape1        |-> 2,
      dia_precursor_cycle |-> <<0, 0, 1, g>>,
      push_indices        |-> row0 \o row1,
      tof_indptr          |-> <<0, Len(row0), Len(row0) + Len(row1)>>,
      intensity_values_t  |-> [k \in 1..(Len(row0) + Len(row1)) |-> k]] :
        z \in 0..1, g \in 1..2,
        row0 \in AscendingUpTo(0..7, MaxEntries),
        both \in BOOLEAN}

\* the rows a cycle mask of one selection window can have: the MS1 entries, the
\* entries of the quadrupole frame, or none
CycleMasks ==
    {<<TRUE, TRUE, FALSE, FALSE>>, <<FALSE, FALSE, TRUE, TRUE>>,
     <<FALSE, FALSE, FALSE, FALSE>>}

\* frame limits from the first frame of a cycle on, scan limits, and the tof
\* limits of one ion over both tof indices or of two ions
PushLimits(z) ==
    {[frame_limits |-> << <<z, z + n, 1>> >>,
      scan_limits  |-> << <<s, 2, 1>> >>,
      tof_limits   |-> t] :
        n \in 2..4, s \in 0..1,
        t \in {<< <<0, 2, 1>> >>, << <<0, 1, 1>>, <<1, 2, 1>> >>}}

\* the (frame, scan) pairs of the two loops of get_push_indices, in their order
loop_pairs(frame_limits, scan_limits) ==
    LET frame_start == frame_limits[1][1]
        n_frames == frame_limits[1][2] - frame_limits[1][1]
        scan_start == scan_limits[1][1]
        n_scans == scan_limits[1][2] - scan_limits[1][1]
    IN [k \in 1..(n_frames * n_scans) |->
            [frame_index |-> frame_start + ((k - 1) \div n_scans),
             scan_index  |-> scan_start + ((k - 1) % n_scans)]]

\* push_index = frame_index * jit_data.scan_max_index + scan_index
push_of(data, pair) == pair.frame_index * data.scan_max_index + pair.scan_index

\* scan_in_dia_mz_cycle: the push, less a frame if there is a zeroth frame,
\* modulo the length of dia_mz_cycle
scan_in_dia_mz_cycle(data, push) ==
    LET cyclic_push_index == IF data.zeroth_frame = 1
                             THEN push - data.scan_max_index ELSE push
    IN cyclic_push_index % Len(data.dia_precursor_cycle)

\* get_push_indices: the pushes whose cycle entry the mask selects and their
\* precursor cycles, in the order of the loops
get_push_indices(data, frame_limits, scan_limits, mask) ==
    LET pairs == loop_pairs(frame_limits, scan_limits)
        selected(pair) == mask[scan_in_dia_mz_cycle(data, push_of(data, pair)) + 1]
        hits == SelectSeq(pairs, selected)
    IN [push_indices |-> [k \in 1..Len(hits) |-> push_of(data, hits[k])],
        absolute_precursor_cycle |->
            [k \in 1..Len(hits) |->
                data.dia_precursor_cycle[
                    scan_in_dia_mz_cycle(data, push_of(data, hits[k])) + 1]]]

\* faulty variant: the distinct values in descending order
np_unique_descending(values) ==
    LET S == Range(values)
    IN [r \in 1..Cardinality(S) |->
            CHOOSE x \in S : Cardinality({y \in S : y > x}) = r - 1]

\* np.unique: the distinct values in ascending order
np_unique(values) ==
    LET S == Range(values)
    IN [r \in 1..Cardinality(S) |->
            CHOOSE x \in S : Cardinality({y \in S : y < x}) = r - 1]

\* precursor_index_reverse[value]: the position, from 0, of a value in
\* np.unique(precursor_index)
precursor_index_reverse(values, value) ==
    LET unique_precursor_index == np_unique(values)
    IN (CHOOSE r \in 1..Len(unique_precursor_index) :
            unique_precursor_index[r] = value) - 1

\* the shape of dense_output
dense_output_shape(data, limits, values) ==
    LET mobility_len == limits.scan_limits[1][2] - limits.scan_limits[1][1]
        precursor_cycle_start ==
            (limits.frame_limits[1][1] - data.zeroth_frame) \div data.cycle_shape1
        precursor_cycle_stop ==
            (limits.frame_limits[1][2] - data.zeroth_frame) \div data.cycle_shape1
    IN <<2, Len(limits.tof_limits), Len(np_unique(values)), mobility_len,
         precursor_cycle_stop - precursor_cycle_start>>

\* the cells (j, observation, scan, cycle) of a tensor of a shape
cells_of(shape) ==
    (0..(shape[2] - 1)) \X (0..(shape[3] - 1)) \X (0..(shape[4] - 1)) \X (0..(shape[5] - 1))

\* the cell the raw entry idx is added to when it equals entry i of push_query
cell_of(data, limits, values, j, i, idx) ==
    LET push == data.push_indices[idx + 1]
        frame_index == push \div data.scan_max_index
        scan_index == push % data.scan_max_index
        precursor_cycle_index == (frame_index - data.zeroth_frame) \div data.cycle_shape1
        precursor_cycle_start ==
            (limits.frame_limits[1][1] - data.zeroth_frame) \div data.cycle_shape1
    IN <<j, precursor_index_reverse(values, values[i + 1]),
         scan_index - limits.scan_limits[1][1],
         precursor_cycle_index - precursor_cycle_start>>

\* faulty variant: the query is also passed when it equals the raw push
query_behind_or_at(query, push) == query <= push

\* if push_query[i] < push_index[idx]: the query is behind the raw push
query_behind(query, push) == query < push

PushIdle ==
    /\ p_pc = "idle"
    /\ p_data = <<>>
    /\ cycle_mask = <<>>
    /\ p_limits = <<>>
    /\ push_query = <<>>
    /\ precursor_index = <<>>
    /\ dense_output = <<>>
    /\ p_loop = <<>>
    /\ p_visited = <<>>

\* raw data, a cycle mask and the limits of a group, before get_push_indices
PushInit ==
    /\ p_pc = "query"
    /\ p_data \in RawData
    /\ cycle_mask \in CycleMasks
    /\ p_limits \in PushLimits(p_data.zeroth_frame)
    /\ push_query = <<>>
    /\ precursor_index = <<>>
    /\ dense_output = <<>>
    /\ p_loop = <<>>
    /\ p_visited = <<>>

\* push_query, _absolute_precursor_index = get_push_indices(...)
P_GetPushIndices ==
    /\ p_pc = "query"
    /\ LET res == get_push_indices(p_data, p_limits.frame_limits, p_limits.scan_limits,
                                   cycle_mask)
       IN /\ push_query' = res.push_indices
          /\ precursor_index' = res.absolute_precursor_cycle
    /\ p_pc' = "assemble"
    /\ UNCHANGED <<p_data, cycle_mask, p_limits, dense_output, p_loop, p_visited>>
    /\ UNCHANGED nonPushVars

\* assemble_push up to the loops: without a selected push the empty tensor is
\* returned; otherwise the tensor is allocated and the loops start at the
\* first tof index of the first ion
P_Assemble ==
    /\ p_pc = "assemble"
    /\ IF Len(precursor_index) = 0
       THEN /\ dense_output' = [shape |-> <<0, 0, 0, 0, 0>>, intensity |-> <<>>]
            /\ p_pc' = "done"
            /\ UNCHANGED p_loop
       ELSE LET shape == dense_output_shape(p_data, p_limits, precursor_index)
                tof_start == p_limits.tof_limits[1][1]
            IN /\ dense_output' = [shape |-> shape,
                                   intensity |-> [c \in cells_of(shape) |-> 0]]
               /\ p_loop' = [j |-> 0, tof_index |-> tof_start, i |-> 0,
                             idx |-> p_data.tof_indptr[tof_start + 1]]
               /\ p_pc' = "loop"
    /\ UNCHANGED <<p_data, cycle_mask, p_limits, push_query, precursor_index, p_visited>>
    /\ UNCHANGED nonPushVars

\* while (idx < stop) and (i < len(push_query))
while_condition ==
    /\ p_loop.idx < p_data.tof_indptr[p_loop.tof_index + 2]
    /\ p_loop.i < Len(push_query)

\* one pass of the while loop.  The tensor is written without a bounds check:
\* a cell outside of it is undefined behaviour, after which nothing is known.
P_Step ==
    /\ p_pc = "loop"
    /\ while_condition
    /\ LET query == push_query[p_loop.i + 1]
           push == p_data.push_indices[p_loop.idx + 1]
           cell == cell_of(p_data, p_limits, precursor_index, p_loop.j, p_loop.i, p_loop.idx)
       IN IF query_behind(query, push)
          THEN /\ p_loop' = [p_loop EXCEPT !.i = @ + 1]
               /\ UNCHANGED <<dense_output, p_visited, p_pc>>
          ELSE IF query = push
          THEN IF cell \in cells_of(dense_output.shape)
               THEN /\ dense_output' = [dense_output EXCEPT !.intensity[cell] =
                                            @ + p_data.intensity_values_t[p_loop.idx + 1]]
                    /\ p_visited' = Append(p_visited, <<p_loop.j, p_loop.i, p_loop.idx>>)
                    /\ p_loop' = [p_loop EXCEPT !.idx = @ + 1]
                    /\ UNCHANGED p_pc
               ELSE /\ p_pc' = "ub"
                    /\ UNCHANGED <<dense_output, p_visited, p_loop>>
          ELSE /\ p_loop' = [p_loop EXCEPT !.idx = @ + 1]
               /\ UNCHANGED <<dense_output, p_visited, p_pc>>
    /\ UNCHANGED <<p_data, cycle_mask, p_limits, push_query, precursor_index>>
    /\ UNCHANGED nonPushVars

\* the while loop has ended: the next tof index of the ion, the next ion, or
\* the return of dense_output
P_NextTof ==
    /\ p_pc = "loop"
    /\ ~while_condition
    /\ LET tof_stop == p_limits.tof_limits[p_loop.j + 1][2]
           tof_step == p_limits.tof_limits[p_loop.j + 1][3]
       IN IF p_loop.tof_index + tof_step < tof_stop
          THEN /\ p_loop' = [p_loop EXCEPT
                                !.tof_index = @ + tof_step,
                                !.i = 0,
                                !.idx = p_data.tof_indptr[p_loop.tof_index + tof_step + 1]]
               /\ UNCHANGED p_pc
          ELSE IF p_loop.j + 1 < Len(p_limits.tof_limits)
          THEN LET tof_start == p_limits.tof_limits[p_loop.j + 2][1]
               IN /\ p_loop' = [j |-> p_loop.j + 1, tof_index |-> tof_start, i |-> 0,
                                idx |-> p_data.tof_indptr[tof_start + 1]]
                  /\ UNCHANGED p_pc
          ELSE /\ p_pc' = "done"
               /\ UNCHANGED p_loop
    /\ UNCHANGED <<p_data, cycle_mask, p_limits, push_query, precursor_index,
                   dense_output, p_visited>>
    /\ UNCHANGED nonPushVars

PushNext ==
    \/ P_GetPushIndices
    \/ P_Assemble
    \/ P_Step
    \/ P_NextTof

\* the pushes of the frame and scan limits
window_pushes ==
    {frame * p_data.scan_max_index + scan :
        frame \in p_limits.frame_limits[1][1]..(p_limits.frame_limits[1][2] - 1),
        scan \in p_limits.scan_limits[1][1]..(p_limits.scan_limits[1][2] - 1)}

\* the pushes of the window whose cycle entry the mask selects
selected_pushes ==
    {push \in window_pushes : cycle_mask[scan_in_dia_mz_cycle(p_data, push) + 1]}

\* the precursor cycle of a push
cycle_position(push) ==
    p_data.dia_precursor_cycle[scan_in_dia_mz_cycle(p_data, push) + 1]

\* the distinct precursor-cycle positions of the selected pushes
selected_positions == {cycle_position(push) : push \in selected_pushes}

\* the distinct precursor-cycle positions of the entries the mask selects
mask_positions ==
    {p_data.dia_precursor_cycle[k] : k \in {m \in 1..Len(cycle_mask) : cycle_mask[m]}}

\* the extent of the tensor in scans and in precursor cycles
window_extent ==
    <<p_limits.scan_limits[1][2] - p_limits.scan_limits[1][1],
      ((p_limits.frame_limits[1][2] - p_data.zeroth_frame) \div p_data.cycle_shape1)
      - ((p_limits.frame_limits[1][1] - p_data.zeroth_frame) \div p_data.cycle_shape1)>>

\* C18 as stated: the tensor has the shape (2, n_ions, n_obs, S, C) with n_obs
\* the number of distinct precursor-cycle positions present in the cycle mask.
C18_ShapeByMask ==
    p_pc = "done" =>
        dense_output.shape =
            <<2, Len(p_limits.tof_limits), Cardinality(mask_positions),
              window_extent[1], window_extent[2]>>

\* C18 as the code has it: when the mask selects no push of the frame and scan
\* limits the tensor is empty, of shape (0, 0, 0, 0, 0); otherwise its shape is
\* (2, n_ions, n_obs, S, C) with n_obs the number of distinct precursor-cycle
\* positions of the selected pushes (1 under the MS1 mask), and the positions
\* map to the observation indices 0..n_obs-1 in ascending order, one to one.
C18_ShapeBySelectedPushes ==
    p_pc \in {"loop", "done", "ub"} =>
        IF selected_pushes = {}
        THEN dense_output.shape = <<0, 0, 0, 0, 0>>
        ELSE /\ dense_output.shape =
                    <<2, Len(p_limits.tof_limits), Cardinality(selected_positions),
                      window_extent[1], window_extent[2]>>
             /\ Range(precursor_index) = selected_positions
             /\ {precursor_index_reverse(precursor_index, a) : a \in selected_positions}
                    = 0..(Cardinality(selected_positions) - 1)
             /\ \A a, b \in selected_positions :
                    a < b <=> precursor_index_reverse(precursor_index, a)
                                < precursor_index_reverse(precursor_index, b)
             /\ cycle_mask[1] => Cardinality(selected_positions) = 1

\* a tensor with two observations has been filled and returned
C18_Witness ==
    /\ p_pc = "done"
    /\ dense_output.shape[3] = 2
    /\ Len(p_visited) > 0

\* the raw entries of the tof indices of ion j, from 0
ion_entries(j) ==
    {idx \in 0..(Len(p_data.push_indices) - 1) :
        \E tof_index \in p_limits.tof_limits[j + 1][1]..(p_limits.tof_limits[j + 1][2] - 1) :
            /\ p_data.tof_indptr[tof_index + 1] <= idx
            /\ idx < p_data.tof_indptr[tof_index + 2]}

\* the cell a selected push belongs to for ion j
expected_cell(j, push) ==
    <<j,
      Cardinality({a \in selected_positions : a < cycle_position(push)}),
      (push % p_data.scan_max_index) - p_limits.scan_limits[1][1],
      (((push \div p_data.scan_max_index) - p_data.zeroth_frame) \div p_data.cycle_shape1)
      - ((p_limits.frame_limits[1][1] - p_data.zeroth_frame) \div p_data.cycle_shape1)>>

\* the sum of the intensities of the raw entries of ion j whose push is selected
\* and belongs to a cell
expected_intensity(cell) ==
    sum_seq([k \in 1..Len(p_data.push_indices) |->
        IF /\ (k - 1) \in ion_entries(cell[1])
           /\ p_data.push_indices[k] \in selected_pushes
           /\ expected_cell(cell[1], p_data.push_indices[k]) = cell
        THEN p_data.intensity_values_t[k] ELSE 0])

\* the pairs of a query entry and a raw entry of an ion that are the same push
matching_pairs ==
    {t \in (0..(Len(p_limits.tof_limits) - 1)) \X (0..(Len(push_query) - 1))
            \X (0..(Len(p_data.push_indices) - 1)) :
        /\ t[3] \in ion_entries(t[1])
        /\ push_query[t[2] + 1] = p_data.push_indices[t[3] + 1]}

\* the tensor holds the sums and the loop has found every matching pair once
sums_complete ==
    (p_pc = "done" /\ Len(push_query) > 0) =>
        /\ \A cell \in cells_of(dense_output.shape) :
              dense_output.intensity[cell] = expected_intensity(cell)
        /\ Range(p_visited) = matching_pairs
        /\ Len(p_visited) = Cardinality(matching_pairs)

MaxPrecursors == 3
\* largest value of the decoy column
MaxDecoy == 2

\* faulty variant: the decoy values are the ids
determine_score_groups_plain(decoy, grouped) ==
    IF grouped THEN decoy ELSE [k \in 1..Len(decoy) |-> k - 1]

\* determine_score_groups: the position of each decoy value among the distinct
\* values, or np.arange(len(self.precursor_decoy))
determine_score_groups(decoy, grouped) ==
    IF grouped
    THEN [k \in 1..Len(decoy) |-> precursor_index_reverse(decoy, decoy[k])]
    ELSE [k \in 1..Len(decoy) |-> k - 1]

ScoreIdle ==
    /\ sg_pc = "idle"
    /\ precursor_decoy = <<>>
    /\ score_grouped = FALSE
    /\ group_ids = <<>>

\* a group with at least one precursor, about to be asked for its score groups
ScoreInit ==
    /\ sg_pc = "call"
    /\ precursor_decoy \in SeqsUpTo(0..MaxDecoy, MaxPrecursors) \ {<<>>}
    /\ score_grouped \in BOOLEAN
    /\ group_ids = <<>>

\* the call of determine_score_groups
SG_Call ==
    /\ sg_pc = "call"
    /\ group_ids' = determine_score_groups(precursor_decoy, score_grouped)
    /\ sg_pc' = "done"
    /\ UNCHANGED <<precursor_decoy, score_grouped>>
    /\ UNCHANGED nonScoreVars

ScoreNext == SG_Call

\* C20: the ids are consecutive from 0: with grouping the ids are exactly
\* 0..n-1 for n distinct decoy values (also in a group of decoys only) and two
\* precursors have the same id iff they have the same decoy value; without
\* grouping precursor i has id i.
C20_ConsecutiveIds ==
    sg_pc = "done" =>
        /\ Len(group_ids) = Len(precursor_decoy)
        /\ score_grouped =>
              /\ Range(group_ids) = 0..(Cardinality(Range(precursor_decoy)) - 1)
              /\ \A a, b \in 1..Len(group_ids) :
                    group_ids[a] = group_ids[b] <=> precursor_decoy[a] = precursor_decoy[b]
        /\ ~score_grouped => \A i \in 1..Len(group_ids) : group_ids[i] = i - 1

\* a group of decoys only has been numbered with grouping
C20_Witness ==
    /\ sg_pc = "done"
    /\ score_grouped
    /\ Len(precursor_decoy) > 1
    /\ Range(precursor_decoy) = {1}
    /\ Range(group_ids) = {0}

(***************************************************************************)
(* Workflow.calibration: the batch plan, the epochs, the steps of an       *)
(* epoch and the recalibration.  The extraction, the FDR correction and    *)
(* the calibration manager are outside the repository's planning code:     *)
(* the number of precursors below 0.001 FDR after a step and the 70%       *)
(* confidence intervals of a fit are inputs.                               *)
(***************************************************************************)
MaxEg == 4
MaxBatch == 2
MaxEpochs == 2

\* the tolerance every target_*_tolerance of the configurations has
TargetTolerance == 1

\* the four errors, in the order ms1, ms2, rt, mobility
ErrorNames == <<"ms1_error", "ms2_error", "rt_error", "mobility_error">>

\* vectors of four values, each low or high: all low, one high, all high
Vectors(low, high) ==
    {[i \in 1..4 |-> low], [i \in 1..4 |-> high]}
    \cup {[i \in 1..4 |-> IF i = k THEN high ELSE low] : k \in 1..4}

Configs ==
    {[batch_size |-> b,
      max_epochs |-> e,
      recalibration_target |-> 1,
      initial_num_candidates |-> 2,
      initial_ms1_tolerance |-> t[1],
      initial_ms2_tolerance |-> t[2],
      initial_rt_tolerance |-> t[3],
      initial_mobility_tolerance |-> t[4],
      target_ms1_tolerance |-> TargetTolerance,
      target_ms2_tolerance |-> TargetTolerance,
      target_rt_tolerance |-> TargetTolerance,
      target_mobility_tolerance |-> TargetTolerance,
      final_full_calibration |-> f] :
        b \in 1..MaxBatch, e \in 1..MaxEpochs,
        t \in Vectors(TargetTolerance, TargetTolerance + 1), f \in BOOLEAN}

\* the 70% confidence intervals a fit can return: below and above the target
Intervals == Vectors(0, TargetTolerance + 1)

max(a, b) == IF a >= b THEN a ELSE b

min(a, b) == IF a <= b THEN a ELSE b

get_exponential_batches(step) == 2 ^ max(step - 3, 0)

\* faulty variant: a batch is never cut at the number of elution groups
stop_index_uncut(start_index, n_batches, batch_size, n) ==
    start_index + n_batches * batch_size

stop_index_of(start_index, n_batches, batch_size, n) ==
    min(start_index + n_batches * batch_size, n)

WorkflowIdle ==
    /\ w_pc = "idle"
    /\ config = <<>>
    /\ n_eg = 0
    /\ plan_loop = <<>>
    /\ batch_plan = <<>>
    /\ progress = <<>>
    /\ current_epoch = 0
    /\ current_step = 0
    /\ recal_log = <<>>

\* calibration has called start_of_calibration, which has called get_batch_plan
WorkflowInit ==
    /\ w_pc = "plan"
    /\ config \in Configs
    /\ n_eg \in 0..MaxEg
    /\ plan_loop = [plan |-> <<>>, step |-> 0, start_index |-> 0, n_batches |-> 0]
    /\ batch_plan = <<>>
    /\ progress = <<>>
    /\ current_epoch = 0
    /\ current_step = 0
    /\ recal_log = <<>>

\* one turn of the while loop of get_batch_plan
Cal_PlanStep ==
    /\ w_pc = "plan"
    /\ plan_loop.start_index < n_eg
    /\ LET n_batches == get_exponential_batches(plan_loop.step)
           stop_index == stop_index_of(plan_loop.start_index, n_batches,
                                       config.batch_size, n_eg)
       IN  plan_loop' = [plan |-> Append(plan_loop.plan,
                                         <<plan_loop.start_index, stop_index>>),
                         step |-> plan_loop.step + 1,
                         start_index |-> stop_index,
                         n_batches |-> n_batches]
    /\ UNCHANGED <<w_pc, config, n_eg, batch_plan, progress, current_epoch,
                   current_step, recal_log>>
    /\ UNCHANGED nonWorkflowVars

\* get_batch_plan returns; start_of_calibration initializes the progress dict
Cal_StartOfCalibration ==
    /\ w_pc = "plan"
    /\ ~(plan_loop.start_index < n_eg)
    /\ batch_plan' = plan_loop.plan
    /\ progress' = [current_epoch |-> 0,
                    current_step |-> 0,
                    ms1_error |-> config.initial_ms1_tolerance,
                    ms2_error |-> config.initial_ms2_tolerance,
                    rt_error |-> config.initial_rt_tolerance,
                    mobility_error |-> config.initial_mobility_tolerance,
                    column_type |-> "library",
                    num_candidates |-> config.initial_num_candidates,
                    recalibration_target |-> config.recalibration_target,
                    accumulated_precursors_0_001FDR |-> 0]
    /\ w_pc' = "epoch"
    /\ current_epoch' = 0
    /\ UNCHANGED <<config, n_eg, plan_loop, current_step, recal_log>>
    /\ UNCHANGED nonWorkflowVars

start_of_epoch(p, epoch) ==
    LET q == [p EXCEPT !.current_epoch = epoch]
    IN  IF q.current_epoch > 0
        THEN [q EXCEPT !.num_candidates = 1,
                       !.recalibration_target =
                           config.recalibration_target * (1 + epoch)]
        ELSE q

check_epoch_conditions(p) ==
    \/ p.ms1_error > config.target_ms1_tolerance
    \/ p.ms2_error > config.target_ms2_tolerance
    \/ p.rt_error > config.target_rt_tolerance
    \/ p.mobility_error > config.target_mobility_tolerance

\* faulty variant: the errors are the confidence intervals themselves
recalibration_unclamped(p, ci) ==
    [p EXCEPT !.ms1_error = ci[1],
              !.ms2_error = ci[2],
              !.rt_error = ci[3],
              !.mobility_error = ci[4],
              !.column_type = "calibrated"]

\* ci: the 70% intervals of precursor mz, fragment mz, rt and mobility
recalibration(p, ci) ==
    [p EXCEPT !.ms1_error = max(ci[1], config.target_ms1_tolerance),
              !.ms2_error = max(ci[2], config.target_ms2_tolerance),
              !.rt_error = max(ci[3], config.target_rt_tolerance),
              !.mobility_error = max(ci[4], config.target_mobility_tolerance),
              !.column_type = "calibrated"]

\* faulty variant: the last step of the plan does not force a recalibration
check_recalibration_target_only(p) ==
    p.accumulated_precursors_0_001FDR > p.recalibration_target

\* the decision of check_recalibration, on the progress it has updated
check_recalibration(p) ==
    \/ p.accumulated_precursors_0_001FDR > p.recalibration_target
    \/ p.current_step = Len(batch_plan) - 1

\* the counts of precursors below 0.001 FDR a step can find: none, the target
\* and one more than the target
AccumulatedCounts(p) == {0, p.recalibration_target, p.recalibration_target + 1}

\* the head of the epoch loop: start_of_epoch, check_epoch_conditions, and
\* with an empty plan the whole epoch
Cal_StartOfEpoch ==
    /\ w_pc = "epoch"
    /\ current_epoch < config.max_epochs
    /\ progress' = start_of_epoch(progress, current_epoch)
    /\ IF check_epoch_conditions(progress')
       THEN IF Len(batch_plan) > 0
            THEN /\ w_pc' = "step"
                 /\ current_step' = 0
                 /\ UNCHANGED current_epoch
            ELSE /\ current_epoch' = current_epoch + 1
                 /\ UNCHANGED <<w_pc, current_step>>
       ELSE /\ w_pc' = "final"
            /\ UNCHANGED <<current_epoch, current_step>>
    /\ UNCHANGED <<config, n_eg, plan_loop, batch_plan, recal_log>>
    /\ UNCHANGED nonWorkflowVars

\* range(max_epochs) is used up
Cal_EndOfEpochs ==
    /\ w_pc = "epoch"
    /\ ~(current_epoch < config.max_epochs)
    /\ w_pc' = "final"
    /\ UNCHANGED <<config, n_eg, plan_loop, batch_plan, progress, current_epoch,
                   current_step, recal_log>>
    /\ UNCHANGED nonWorkflowVars

\* one turn of the step loop: start_of_step, extract_batch, fdr_correction,
\* check_recalibration and, when it says so, recalibration and break
Cal_Step ==
    /\ w_pc = "step"
    /\ \E acc \in AccumulatedCounts(progress), ci \in Intervals :
        LET started == [progress EXCEPT !.current_step = current_step]
            checked == [started EXCEPT !.accumulated_precursors_0_001FDR = acc]
        IN  IF check_recalibration(checked)
            THEN /\ progress' = recalibration(checked, ci)
                 /\ recal_log' = Append(recal_log, <<current_epoch, current_step>>)
                 /\ w_pc' = "epoch"
                 /\ current_epoch' = current_epoch + 1
                 /\ UNCHANGED current_step
            ELSE /\ progress' = checked
                 /\ UNCHANGED recal_log
                 /\ IF current_step + 1 < Len(batch_plan)
                    THEN /\ current_step' = current_step + 1
                         /\ UNCHANGED <<w_pc, current_epoch>>
                    ELSE /\ w_pc' = "epoch"
                         /\ current_epoch' = current_epoch + 1
                         /\ UNCHANGED current_step
    /\ UNCHANGED <<config, n_eg, plan_loop, batch_plan>>
    /\ UNCHANGED nonWorkflowVars

\* after the epochs: the final calibration with all precursors, when the
\* configuration has the key and it is true, and end_of_calibration
Cal_Final ==
    /\ w_pc = "final"
    /\ IF config.final_full_calibration
       THEN \E ci \in Intervals : progress' = recalibration(progress, ci)
       ELSE UNCHANGED progress
    /\ w_pc' = "done"
    /\ UNCHANGED <<config, n_eg, plan_loop, batch_plan, current_epoch,
                   current_step, recal_log>>
    /\ UNCHANGED nonWorkflowVars

WorkflowNext ==
    \/ Cal_PlanStep
    \/ Cal_StartOfCalibration
    \/ Cal_StartOfEpoch
    \/ Cal_EndOfEpochs
    \/ Cal_Step
    \/ Cal_Final

\* the shape the docstring of get_exponential_batches gives: 1, 1, 1, 2, 4, 8, ...
docstring_batches(step) == IF step < 3 THEN 1 ELSE 2 ^ (step - 2)

\* C21: the number of batches get_batch_plan got from get_exponential_batches
\* for the step it has just planned is the one of the shape 1, 1, 1, 2, 4, 8,
\* 16, ...: one batch for the steps 0, 1 and 2, then doubling from step 3 on.
C21_ThreeOnesThenDoubling ==
    (w_pc = "plan" /\ plan_loop.step > 0)
        => plan_loop.n_batches = docstring_batches(plan_loop.step - 1)

\* get_batch_plan has returned
plan_returned == w_pc \in {"epoch", "step", "final", "done"}

\* the pairs of plan cut [0, n) into consecutive, non-empty pieces
partitions(plan, n) ==
    /\ (plan = <<>>) <=> (n = 0)
    /\ plan # <<>> => (plan[1][1] = 0 /\ plan[Len(plan)][2] = n)
    /\ \A i \in 1..Len(plan) : plan[i][1] < plan[i][2]
    /\ \A i \in 2..Len(plan) : plan[i][1] = plan[i - 1][2]

\* C26: for every number of elution groups from 0 on and every batch size
\* from 1 on, get_batch_plan returns, and the plan it returns cuts [0, n_eg)
\* into consecutive pieces: the first starts at 0, each starts where the one
\* before stopped, each has start < stop, the last stops at n_eg, and the plan
\* is empty exactly when n_eg is 0.
C26_PlanPartitions ==
    /\ [](plan_returned => partitions(batch_plan, n_eg))
    /\ <>plan_returned

\* a plan of several steps whose last batch was cut at n_eg
C26_Witness ==
    /\ plan_returned
    /\ Len(batch_plan) >= 2
    /\ batch_plan[Len(batch_plan)][2] - batch_plan[Len(batch_plan)][1]
           < config.batch_size

\* the recalibrations the step loop of epoch e has made
recalibrations_of(e) == {i \in 1..Len(recal_log) : recal_log[i][1] = e}

\* the epochs whose step loop is over
epochs_over == 0..(current_epoch - 1)

once_per_epoch ==
    (Len(batch_plan) > 0 /\ plan_returned) =>
        /\ \A e \in epochs_over : Cardinality(recalibrations_of(e)) = 1
        /\ w_pc = "step" => recalibrations_of(current_epoch) = {}
        /\ \A i \in 1..Len(recal_log) : recal_log[i][1] < config.max_epochs
        /\ current_epoch <= config.max_epochs

\* a turn of the step loop recalibrates exactly when the count it found is
\* above the target or the step is the last of the plan
recalibration_when_due ==
    w_pc = "step" =>
        ((recal_log' # recal_log) <=>
            \/ progress'.accumulated_precursors_0_001FDR
                   > progress'.recalibration_target
            \/ current_step = Len(batch_plan) - 1)

\* an epoch whose conditions are false ends the loop without a step
stops_at_false_conditions ==
    (w_pc = "epoch" /\ current_epoch < config.max_epochs
        /\ ~check_epoch_conditions(start_of_epoch(progress, current_epoch)))
    => (w_pc' = "final" /\ recal_log' = recal_log)

\* C27: with a non-empty batch plan every epoch whose check_epoch_conditions
\* is true recalibrates exactly once: at the first step whose accumulated
\* count at 0.001 FDR is above recalibration_target, at the last step of the
\* plan at the latest, and no step of the epoch follows; the epoch loop ends
\* at the first epoch whose conditions are false and runs at most max_epochs
\* epochs.
C27_OneRecalibrationPerEpoch ==
    /\ []once_per_epoch
    /\ [][recalibration_when_due /\ stops_at_false_conditions]_vars

\* two epochs: one recalibrated before the last step, the other at the last
C27_Witness ==
    /\ w_pc = "done"
    /\ Len(recal_log) = 2
    /\ recal_log[1][2] < Len(batch_plan) - 1
    /\ recal_log[2][2] = Len(batch_plan) - 1

at_least_target(p) ==
    /\ p.ms1_error >= config.target_ms1_tolerance
    /\ p.ms2_error >= config.target_ms2_tolerance
    /\ p.rt_error >= config.target_rt_tolerance
    /\ p.mobility_error >= config.target_mobility_tolerance

\* this step is one in which recalibration is called
recalibrating ==
    \/ recal_log' # recal_log
    \/ w_pc = "final" /\ config.final_full_calibration

calibration_state ==
    progress # <<>> =>
        /\ progress.column_type \in {"library", "calibrated"}
        /\ progress.column_type = "calibrated" => at_least_target(progress)
        /\ (recal_log = <<>> /\ w_pc # "done") => progress.column_type = "library"
        /\ (w_pc = "step" /\ current_epoch > 0) => progress.num_candidates = 1

calibration_step ==
    /\ recalibrating =>
        (at_least_target(progress') /\ progress'.column_type = "calibrated")
    /\ (progress # <<>> /\ progress.column_type = "calibrated")
        => progress'.column_type = "calibrated"

\* C28: after any recalibration each of ms1_error, ms2_error, rt_error and
\* mobility_error is at least its target tolerance and column_type is
\* 'calibrated'; column_type starts as 'library' and, once 'calibrated', stays
\* so; num_candidates is 1 in every epoch after epoch 0.
C28_ErrorsAtLeastTarget ==
    /\ []calibration_state
    /\ [][calibration_step]_vars

\* a later epoch after a recalibration that clamped the ms1 error to its target
C28_Witness ==
    /\ w_pc = "step"
    /\ current_epoch > 0
    /\ progress.column_type = "calibrated"
    /\ progress.ms1_error = config.target_ms1_tolerance
    /\ progress.ms2_error > config.target_ms2_tolerance
    /\ progress.num_candidates = 1

(***************************************************************************)
(* The candidate_key filter of Plan.run.  The arrays are 64 bit integers;  *)
(* a value is written as its four 16 bit limbs, lowest first, and the      *)
(* arithmetic is modulo 2^64.                                              *)
(***************************************************************************)
MaxPsmRows == 2
MaxFragRows == 2

LimbBase == 2 ^ 16

\* the 64 bit value of a number below LimbBase
word(x) == <<x, 0, 0, 0>>

\* 2^32 - 1, the largest precursor_idx of 32 bits
MaxIdx32 == <<LimbBase - 1, LimbBase - 1, 0, 0>>

\* a << 32 on 64 bits: the two upper limbs fall out
shift_left_32(a) == <<0, 0, a[1], a[2]>>

carry(s) == IF s >= LimbBase THEN 1 ELSE 0

\* a + b on 64 bits
add64(a, b) ==
    LET s1 == a[1] + b[1]
        s2 == a[2] + b[2] + carry(s1)
        s3 == a[3] + b[3] + carry(s2)
        s4 == a[4] + b[4] + carry(s3)
    IN  <<s1 % LimbBase, s2 % LimbBase, s3 % LimbBase, s4 % LimbBase>>

\* faulty variant: the rank is left out of the key
hash_without_rank(idx, rank) == idx

hash(idx, rank) == add64(idx, shift_left_32(rank))

\* the precursor_idx of 32 bits and the ranks of 8 bits of the tables
KeyIdx == {word(0), MaxIdx32}
KeyRanks == {word(0), word(LimbBase \div 256 - 1)}

PsmRows == [precursor_idx : KeyIdx, rank : KeyRanks, qval : 0..1]
FragRows == [precursor_idx : KeyIdx, rank : KeyRanks]

\* df[mask]: the rows whose mask is true, in order
RECURSIVE select_rows(_, _)
select_rows(rows, mask) ==
    IF rows = <<>> THEN <<>>
    ELSE LET rest == select_rows(Tail(rows), Tail(mask))
         IN  IF Head(mask) THEN <<Head(rows)>> \o rest ELSE rest

candidate_keys(rows) == [i \in 1..Len(rows) |-> hash(rows[i].precursor_idx, rows[i].rank)]

\* psm_df[psm_df["qval"] <= fdr]
fdr_filtered(psm) == select_rows(psm, [i \in 1..Len(psm) |-> psm[i].qval <= fdr])

\* frag_df[frag_df["candidate_key"].isin(psm_df["candidate_key"])]
key_filtered(frag, psm) ==
    LET psm_keys == Range(candidate_keys(psm))
        frag_keys == candidate_keys(frag)
    IN  select_rows(frag, [i \in 1..Len(frag) |-> frag_keys[i] \in psm_keys])

KeyIdle ==
    /\ ck_pc = "idle"
    /\ fdr = 0
    /\ psm_df = <<>>
    /\ frag_df = <<>>
    /\ psm_out = <<>>
    /\ frag_out = <<>>

\* workflow.extraction has returned the two tables
KeyInit ==
    /\ ck_pc = "filter"
    /\ fdr = 0
    /\ psm_df \in SeqsUpTo(PsmRows, MaxPsmRows)
    /\ frag_df \in SeqsUpTo(FragRows, MaxFragRows)
    /\ psm_out = <<>>
    /\ frag_out = <<>>

\* the FDR filter of psm_df, the two candidate_key columns and the filter of frag_df
CK_Filter ==
    /\ ck_pc = "filter"
    /\ psm_out' = fdr_filtered(psm_df)
    /\ frag_out' = key_filtered(frag_df, psm_out')
    /\ ck_pc' = "done"
    /\ UNCHANGED <<fdr, psm_df, frag_df>>
    /\ UNCHANGED nonKeyVars

KeyNext == CK_Filter

\* the rows of both tables, as (precursor_idx, rank)
pair_of(row) == <<row.precursor_idx, row.rank>>
all_pairs ==
    {pair_of(psm_df[i]) : i \in 1..Len(psm_df)}
    \cup {pair_of(frag_df[i]) : i \in 1..Len(frag_df)}

\* the (precursor_idx, rank) of the psm rows that pass the FDR filter
passing_pairs == {pair_of(psm_df[i]) : i \in {j \in 1..Len(psm_df) : psm_df[j].qval <= fdr}}

\* the key holds the precursor_idx in its lower 32 bits, the rank in the
\* next 8 bits and nothing above
key_layout(pair) ==
    LET key == hash(pair[1], pair[2])
    IN  /\ key[1] = pair[1][1]
        /\ key[2] = pair[1][2]
        /\ key[3] = pair[2][1]
        /\ key[4] = 0

\* C22: hash puts the precursor_idx in the lower 32 bits and the rank in the
\* next 8 bits of the key, so for precursor_idx below 2^32 and rank below 2^8
\* two candidates have the same candidate_key exactly when they have the same
\* (precursor_idx, rank); the candidate_key filter of Plan.run therefore keeps
\* exactly the fragment rows whose (precursor_idx, rank) occurs in the
\* FDR-filtered psm table.
C22_KeyFilterExact ==
    /\ \A a \in all_pairs : key_layout(a)
    /\ \A a \in all_pairs, b \in all_pairs :
           (hash(a[1], a[2]) = hash(b[1], b[2])) <=> (a = b)
    /\ ck_pc = "done" =>
           frag_out = select_rows(frag_df,
               [i \in 1..Len(frag_df) |-> pair_of(frag_df[i]) \in passing_pairs])

\* a fragment row is kept and another, of the same precursor and another
\* rank, is dropped; the psm row of that rank failed the FDR filter
C22_Witness ==
    /\ ck_pc = "done"
    /\ Len(frag_df) = 2
    /\ Len(frag_out) = 1
    /\ frag_df[1].precursor_idx = MaxIdx32
    /\ frag_df[2].precursor_idx = MaxIdx32
    /\ frag_df[1].rank # frag_df[2].rank
    /\ Len(psm_df) = 2
    /\ pair_of(psm_df[1]) = pair_of(frag_df[1])
    /\ pair_of(psm_df[2]) = pair_of(frag_df[2])
    /\ Len(psm_out) = 1


(***************************************************************************)
(* Further claims on the selectors (Spec, SpecPush).                       *)
(***************************************************************************)
\* the score groups of the sorted precursor table
score_group_ids == {r.score_group_idx : r \in Range(calculate_score_groups(precursors_flat))}

\* the precursors of the run of score group g
run_precursors(g) ==
    {r.precursor_idx : r \in {x \in Range(calculate_score_groups(precursors_flat)) :
                                  x.score_group_idx = g}}

\* C23 as stated: assemble_score_groups yields exactly one HybridElutionGroup
\* for each maximal run of equal score_group_idx of the sorted table, the last
\* run and a table of a single score group or a single row included, each with
\* exactly the rows of its run, so that the executor processes every score
\* group of the table.
C23_OneGroupPerRun ==
    (selection = "Hybrid" /\ pc \in {"start", "done"} /\ Len(precursors_flat) > 0) =>
        /\ Len(eg_container) = Cardinality(score_group_ids)
        /\ \A g \in score_group_ids :
              \E i \in 1..Len(eg_container) :
                  /\ eg_container[i].score_group_idx = g
                  /\ Range(eg_container[i].precursor_idx) = run_precursors(g)
                  /\ pc = "done" => eg_container[i].exit # "none"

\* the loop of assemble_push stands at a raw entry that equals the query: the
\* cell of the entry is read and written next
at_match ==
    /\ p_pc \in {"loop", "ub"}
    /\ while_condition
    /\ push_query[p_loop.i + 1] = p_data.push_indices[p_loop.idx + 1]

\* relative_scan and relative_precursor of the entry the loop stands at
relative_indices ==
    LET cell == cell_of(p_data, p_limits, precursor_index, p_loop.j, p_loop.i, p_loop.idx)
    IN  <<cell[3], cell[4]>>

\* C24 as stated: for every push get_push_indices selects from the frame and
\* scan limits, assemble_push computes a relative scan index in
\* [0, scan_stop - scan_start) and a relative cycle index in
\* [0, precursor_cycle_len), so that every read and write of dense_output is
\* inside the tensor, for all frame_start < frame_stop, scan_start < scan_stop
\* <= scan_max_index, zeroth_frame 0 or 1 and a cycle of length >= 1.
C24_RelativeIndicesInside ==
    at_match =>
        /\ relative_indices[1] \in 0..(dense_output.shape[4] - 1)
        /\ relative_indices[2] \in 0..(dense_output.shape[5] - 1)

(***************************************************************************)
(* assemble_elution_groups and ElutionGroup.__init__ with all arrays of a  *)
(* group.  The charge is 1 and the isotope spacing is one unit of m/z, so  *)
(* top_isotope_mz is mz + isotope_apex_offset.                             *)
(***************************************************************************)
MaxTableRows == 3
MaxGroups == 2

\* the precursor tables: rows in ascending or descending order of
\* precursor_idx, m/z rising or falling with it, any assignment of elution
\* groups and of offsets; without the column the offsets are not there (0)
OffsetTables ==
    UNION {{[has_column |-> has,
             table |-> [k \in 1..n |->
                LET p == IF row_dir = "asc" THEN k ELSE n + 1 - k
                IN  [precursor_idx       |-> p,
                     elution_group_idx   |-> eg[p],
                     decoy               |-> p % 2,
                     mz                  |-> IF mz_dir = "asc" THEN p ELSE n + 1 - p,
                     isotope_apex_offset |-> IF has THEN off[p] ELSE 0]]] :
                eg \in [1..n -> 1..MaxGroups], off \in [1..n -> 0..1],
                has \in BOOLEAN, row_dir \in {"asc", "desc"},
                mz_dir \in {"asc", "desc"}} :
           n \in 1..MaxTableRows}

\* the column of a table or of a group of rows
column_mz(rows) == [k \in 1..Len(rows) |-> rows[k].mz]
column_offset(rows) == [k \in 1..Len(rows) |-> rows[k].isotope_apex_offset]

\* the isotope_apex_offset handed to ElutionGroup: the column of the whole
\* table when the table has it, zeros as long as the group otherwise
offset_argument(table, grouped, has_column) ==
    IF has_column THEN column_offset(table)
    ELSE [k \in 1..Len(grouped) |-> 0]

\* the shapes of two arrays of one dimension broadcast
broadcastable(a, b) == Len(a) = Len(b) \/ Len(a) = 1 \/ Len(b) = 1

\* a + b of two arrays that broadcast
broadcast_add(a, b) ==
    LET n == max(Len(a), Len(b))
        at_a(k) == IF Len(a) = 1 THEN a[1] ELSE a[k]
        at_b(k) == IF Len(b) = 1 THEN b[1] ELSE b[k]
    IN  [k \in 1..n |-> at_a(k) + at_b(k)]

\* np.argsort(mz), from 1
argsort(mz) == sort_by([k \in 1..Len(mz) |-> k], mz)

\* array[order]
take(array, order) == [k \in 1..Len(order) |-> array[order[k]]]

\* faulty variant: the isotope arrays are left in the order, and the length,
\* they came in
elution_group_sort_by_mz_partial(eg) ==
    LET mz_order == argsort(eg.mz)
    IN  [eg EXCEPT !.mz = take(eg.mz, mz_order),
                   !.decoy = take(eg.decoy, mz_order),
                   !.precursor_idx = take(eg.precursor_idx, mz_order)]

\* ElutionGroup.sort_by_mz on all five arrays
elution_group_sort_by_mz(eg) ==
    LET mz_order == argsort(eg.mz)
    IN  [eg EXCEPT !.mz = take(eg.mz, mz_order),
                   !.decoy = take(eg.decoy, mz_order),
                   !.isotope_apex_offset = take(eg.isotope_apex_offset, mz_order),
                   !.top_isotope_mz = take(eg.top_isotope_mz, mz_order),
                   !.precursor_idx = take(eg.precursor_idx, mz_order)]

\* ElutionGroup.__init__ for arguments whose m/z and offsets broadcast
elution_group_arrays(name, grouped, offset) ==
    elution_group_sort_by_mz(
        [elution_group_idx   |-> name,
         precursor_idx       |-> [k \in 1..Len(grouped) |-> grouped[k].precursor_idx],
         decoy               |-> [k \in 1..Len(grouped) |-> grouped[k].decoy],
         mz                  |-> column_mz(grouped),
         isotope_apex_offset |-> offset,
         top_isotope_mz      |-> broadcast_add(column_mz(grouped), offset)])

\* the rows of elution group g
rows_of_group(table, g) ==
    LET in_group(r) == r.elution_group_idx = g
    IN  SelectSeq(table, in_group)

EgIdle ==
    /\ ae_pc = "idle"
    /\ ae_table = <<>>
    /\ ae_has_column = FALSE
    /\ ae_egs = <<>>

EgInit ==
    /\ ae_pc = "assemble"
    /\ \E t \in OffsetTables :
          /\ ae_table = t.table
          /\ ae_has_column = t.has_column
    /\ ae_egs = <<>>

\* assemble_elution_groups: the table is sorted and the groups are built in
\* the order of their index; the array expression of __init__ raises
\* ValueError for m/z and offsets that do not broadcast, which ends the call
AE_Assemble ==
    /\ ae_pc = "assemble"
    /\ LET sorted == sort_values_precursor_idx(ae_table)
           keys == groupby_keys(sorted)
           offset(r) == offset_argument(sorted, rows_of_group(sorted, keys[r]),
                                        ae_has_column)
           raises(r) == ~broadcastable(column_mz(rows_of_group(sorted, keys[r])),
                                       offset(r))
           n_built == IF \E r \in 1..Len(keys) : raises(r)
                      THEN SetMin({r \in 1..Len(keys) : raises(r)}) - 1
                      ELSE Len(keys)
       IN  /\ ae_table' = sorted
           /\ ae_egs' = [r \in 1..n_built |->
                            elution_group_arrays(keys[r],
                                                 rows_of_group(sorted, keys[r]),
                                                 offset(r))]
           /\ ae_pc' = IF n_built = Len(keys) THEN "done" ELSE "raised"
    /\ UNCHANGED ae_has_column
    /\ UNCHANGED nonEgVars

EgNext == AE_Assemble

\* C25: every ElutionGroup assemble_elution_groups has built holds
\* precursor_idx, decoy, mz, isotope_apex_offset and top_isotope_mz arrays of
\* one length, the number of rows of the table that belong to the group, with
\* and without an isotope_apex_offset column and for any number of groups.
C25_ArraysOfGroupLength ==
    \A i \in 1..Len(ae_egs) :
        LET eg == ae_egs[i]
            n == Len(rows_of_group(ae_table, eg.elution_group_idx))
        IN  /\ Len(eg.precursor_idx) = n
            /\ Len(eg.decoy) = n
            /\ Len(eg.mz) = n
            /\ Len(eg.isotope_apex_offset) = n
            /\ Len(eg.top_isotope_mz) = n

\* a table with the column and several groups, all of them built
C25_Witness ==
    /\ ae_pc = "done"
    /\ ae_has_column
    /\ Len(ae_egs) >= 2
    /\ Len(ae_table) > Len(ae_egs[1].mz)

(***************************************************************************)
(* smooth of preprocessing/smoothing.py: the indices at which it reads     *)
(* indptr.  Smoother.smooth calls it through pjit for every cycle_index of *)
(* its range; the calls do not depend on each other and are taken in the   *)
(* order of the range.  The function is compiled without bounds checks: a  *)
(* read outside indptr is undefined behaviour, after which nothing is      *)
(* known.                                                                  *)
(***************************************************************************)
MaxSmoothScans == 2
MaxSmoothFrames == 2

\* push_indptr of n pushes that hold 0 or 1 peaks each
indptr_of(n, fill) ==
    [k \in 1..(n + 1) |->
        IF fill = "empty" THEN 0
        ELSE IF fill = "full" THEN k - 1
        ELSE k \div 2]

\* the connections of a cycle of len pushes: the same offsets for every push
connections_of(len, offsets) ==
    [connection_counts |-> [k \in 1..(len + 1) |-> (k - 1) * Len(offsets)],
     connections       |-> concatenate([k \in 1..len |-> offsets])]

\* the calls of Smoother.smooth: one frame per cycle, with or without a
\* zeroth frame, pushes without peaks, with one peak each, or alternating
SmoothData ==
    UNION {{[indptr            |-> indptr_of((z + frames) * scans, fill),
             scan_max_index    |-> scans,
             zeroth_frame      |-> z,
             cycle_prod        |-> scans,
             subcycle_len      |-> scans,
             connection_counts |-> connections_of(scans, offsets).connection_counts,
             connections       |-> connections_of(scans, offsets).connections] :
                z \in 0..1, frames \in 1..MaxSmoothFrames,
                fill \in {"empty", "full", "alternate"},
                offsets \in {<<>>, <<0>>, <<1>>, <<0 - 1, 1>>, <<0 - scans, scans>>}} :
           scans \in 1..MaxSmoothScans}

\* range(len(push_indptr) // np.prod(cycle.shape[:-1]) + 1)
cycle_index_count(d) == Len(d.indptr) \div d.cycle_prod + 1

len_cycle(d) == Len(d.connection_counts) - 1

self_push_index_of(d, cycle_index, connection_index) ==
    len_cycle(d) * cycle_index + d.zeroth_frame * d.scan_max_index + connection_index

\* 0 <= other_push_index < len(indptr)
inside_indptr(d, index) == 0 <= index /\ index < Len(d.indptr)

\* connections[connection_start: connection_end] of a connection index
offsets_of(d, connection_index) ==
    SubSeq(d.connections, d.connection_counts[connection_index + 1] + 1,
           d.connection_counts[connection_index + 2])

\* the reads of indptr for the neighbours of a push, as the loop over the
\* offsets makes them
neighbour_reads(d, self_push_index, offsets) ==
    concatenate([k \in 1..Len(offsets) |->
        LET other_push_index == self_push_index + offsets[k]
        IN  IF other_push_index = self_push_index THEN <<>>
            ELSE IF ~inside_indptr(d, other_push_index) THEN <<>>
            ELSE <<other_push_index, other_push_index + 1>>])

\* the reads of indptr one iteration sets out to make: self_start and
\* self_end, and for a push with peaks the reads for its neighbours
reads_of(d, self_push_index, offsets) ==
    IF self_push_index + 1 < Len(d.indptr)
          /\ d.indptr[self_push_index + 1] # d.indptr[self_push_index + 2]
    THEN <<self_push_index, self_push_index + 1>>
             \o neighbour_reads(d, self_push_index, offsets)
    ELSE <<self_push_index, self_push_index + 1>>

\* the reads that are outside of indptr
outside(d, reads) == {k \in 1..Len(reads) : ~(reads[k] \in 0..(Len(d.indptr) - 1))}

SmoothIdle ==
    /\ sm_pc = "idle"
    /\ sm_data = <<>>
    /\ sm_loop = <<>>
    /\ sm_reads = <<>>

SmoothInit ==
    /\ sm_pc = "run"
    /\ sm_data \in SmoothData
    /\ sm_loop = [cycle_index |-> 0, connection_index |-> 0]
    /\ sm_reads = <<>>

\* one iteration of the loop over connection_counts[:-1]
SM_Step ==
    /\ sm_pc = "run"
    /\ sm_loop.connection_index < len_cycle(sm_data)
    /\ LET self_push_index == self_push_index_of(sm_data, sm_loop.cycle_index,
                                                 sm_loop.connection_index)
           offsets == offsets_of(sm_data, sm_loop.connection_index)
           reads == reads_of(sm_data, self_push_index, offsets)
       IN  IF Len(offsets) = 0
           THEN \* connection_end == connection_start: continue
                /\ sm_loop' = [sm_loop EXCEPT !.connection_index = @ + 1]
                /\ sm_reads' = <<>>
                /\ UNCHANGED sm_pc
           ELSE IF self_push_index > Len(sm_data.indptr)
           THEN \* break
                /\ sm_loop' = [sm_loop EXCEPT !.connection_index = len_cycle(sm_data)]
                /\ sm_reads' = <<>>
                /\ UNCHANGED sm_pc
           ELSE IF outside(sm_data, reads) # {}
           THEN /\ sm_reads' = SubSeq(reads, 1, SetMin(outside(sm_data, reads)))
                /\ sm_pc' = "ub"
                /\ UNCHANGED sm_loop
           ELSE /\ sm_reads' = reads
                /\ sm_loop' = [sm_loop EXCEPT !.connection_index = @ + 1]
                /\ UNCHANGED sm_pc
    /\ UNCHANGED sm_data
    /\ UNCHANGED nonSmoothVars

\* the call for a cycle_index has returned: the next cycle_index of the range
SM_NextCycle ==
    /\ sm_pc = "run"
    /\ ~(sm_loop.connection_index < len_cycle(sm_data))
    /\ IF sm_loop.cycle_index + 1 < cycle_index_count(sm_data)
       THEN /\ sm_loop' = [cycle_index |-> sm_loop.cycle_index + 1, connection_index |-> 0]
            /\ UNCHANGED sm_pc
       ELSE /\ sm_pc' = "done"
            /\ UNCHANGED sm_loop
    /\ sm_reads' = <<>>
    /\ UNCHANGED sm_data
    /\ UNCHANGED nonSmoothVars

SmoothNext ==
    \/ SM_Step
    \/ SM_NextCycle

\* C30 as stated: in smooth every index at which indptr is read
\* (self_push_index, self_push_index + 1, other_push_index and
\* other_push_index + 1) lies in [0, len(indptr)), for every cycle_index of
\* the range, every connection index and every connection offset.
C30_IndptrReadsInside ==
    sm_pc \in {"run", "done", "ub"} =>
        \A k \in 1..Len(sm_reads) : sm_reads[k] \in 0..(Len(sm_data.indptr) - 1)

(***************************************************************************)
(* The per-file loop of Plan.run, in alphadia/planning.py and in           *)
(* alphadia/extraction/planning.py.  What the workflow of a file does is   *)
(* an input: it succeeds, it raises an exception, or (alphadia/planning.py *)
(* with reuse_quant) the file is found quantified already.                 *)
(***************************************************************************)
MaxFiles == 3

\* what the try block of a file runs into, per module
FileOutcomes(module) ==
    IF module = "planning" THEN {"ok", "raises", "reused"} ELSE {"ok", "raises"}

PlanIdle ==
    /\ pl_pc = "idle"
    /\ pl_module = "none"
    /\ raw_file_list = <<>>
    /\ pl_index = 0
    /\ pl_processed = <<>>
    /\ pl_logged = <<>>

PlanInit ==
    /\ pl_pc = "loop"
    /\ pl_module \in {"planning", "extraction.planning"}
    /\ raw_file_list \in (SeqsUpTo(FileOutcomes(pl_module), MaxFiles) \ {<<>>})
    /\ pl_index = 0
    /\ pl_processed = <<>>
    /\ pl_logged = <<>>

\* alphadia/planning.py: one turn of the loop.  An exception of the try block
\* is printed and logged with raw_name, the loop variable, and the loop
\* continues
PL_File ==
    /\ pl_pc = "loop"
    /\ pl_module = "planning"
    /\ pl_index < Len(raw_file_list)
    /\ pl_index' = pl_index + 1
    /\ pl_processed' = Append(pl_processed, pl_index + 1)
    /\ pl_logged' = IF raw_file_list[pl_index + 1] = "raises"
                    THEN Append(pl_logged, pl_index + 1)
                    ELSE pl_logged
    /\ UNCHANGED <<pl_pc, pl_module, raw_file_list>>
    /\ UNCHANGED nonPlanVars

\* alphadia/extraction/planning.py: one turn of the loop.  raw_name is not a
\* name of run nor of the module: a try block that got as far as
\* df['run'] = raw_name raises NameError there, and the handler, whose log
\* message is formatted with raw_name, raises NameError itself, which leaves
\* the loop
PL_ExtractionFile ==
    /\ pl_pc = "loop"
    /\ pl_module = "extraction.planning"
    /\ pl_index < Len(raw_file_list)
    /\ pl_index' = pl_index + 1
    /\ pl_processed' = Append(pl_processed, pl_index + 1)
    /\ pl_pc' = "propagated"
    /\ UNCHANGED <<pl_module, raw_file_list, pl_logged>>
    /\ UNCHANGED nonPlanVars

\* the generator of the raw files is used up
PL_End ==
    /\ pl_pc = "loop"
    /\ ~(pl_index < Len(raw_file_list))
    /\ pl_pc' = "done"
    /\ UNCHANGED <<pl_module, raw_file_list, pl_index, pl_processed, pl_logged>>
    /\ UNCHANGED nonPlanVars

PlanNext ==
    \/ PL_File
    \/ PL_ExtractionFile
    \/ PL_End

\* the files whose processing raises an exception
raising_files == {i \in 1..Len(raw_file_list) : raw_file_list[i] = "raises"}

\* C29 as stated: an exception raised while a raw file is processed in
\* Plan.run is caught and logged and every later raw file of raw_file_list is
\* still processed; the exception never leaves the per-file loop.
C29_ExceptionStaysInLoop ==
    /\ pl_pc # "propagated"
    /\ pl_pc = "done" =>
          /\ pl_processed = [i \in 1..Len(raw_file_list) |-> i]
          /\ Range(pl_logged) = raising_files

OthersIdleMask ==
    CandIdle /\ RunIdle /\ ValIdle /\ FilterIdle /\ PushIdle /\ ScoreIdle /\ WorkflowIdle /\ KeyIdle /\ EgIdle /\ SmoothIdle /\ PlanIdle

OthersIdleCand ==
    MaskIdle /\ RunIdle /\ ValIdle /\ FilterIdle /\ PushIdle /\ ScoreIdle /\ WorkflowIdle /\ KeyIdle /\ EgIdle /\ SmoothIdle /\ PlanIdle

OthersIdleRun ==
    MaskIdle /\ CandIdle /\ ValIdle /\ FilterIdle /\ PushIdle /\ ScoreIdle /\ WorkflowIdle /\ KeyIdle /\ EgIdle /\ SmoothIdle /\ PlanIdle

OthersIdleVal ==
    MaskIdle /\ CandIdle /\ RunIdle /\ FilterIdle /\ PushIdle /\ ScoreIdle /\ WorkflowIdle /\ KeyIdle /\ EgIdle /\ SmoothIdle /\ PlanIdle

OthersIdleFilter ==
    MaskIdle /\ CandIdle /\ RunIdle /\ ValIdle /\ PushIdle /\ ScoreIdle /\ WorkflowIdle /\ KeyIdle /\ EgIdle /\ SmoothIdle /\ PlanIdle

OthersIdleScore ==
    MaskIdle /\ CandIdle /\ RunIdle /\ ValIdle /\ FilterIdle /\ PushIdle /\ WorkflowIdle /\ KeyIdle /\ EgIdle /\ SmoothIdle /\ PlanIdle

OthersIdlePush ==
    MaskIdle /\ CandIdle /\ RunIdle /\ ValIdle /\ FilterIdle /\ ScoreIdle /\ WorkflowIdle /\ KeyIdle /\ EgIdle /\ SmoothIdle /\ PlanIdle

OthersIdleWorkflow ==
    MaskIdle /\ CandIdle /\ RunIdle /\ ValIdle /\ FilterIdle /\ PushIdle /\ ScoreIdle /\ KeyIdle /\ EgIdle /\ SmoothIdle /\ PlanIdle

OthersIdleKey ==
    MaskIdle /\ CandIdle /\ RunIdle /\ ValIdle /\ FilterIdle /\ PushIdle /\ ScoreIdle /\ WorkflowIdle /\ EgIdle /\ SmoothIdle /\ PlanIdle

OthersIdleEg ==
    MaskIdle /\ CandIdle /\ RunIdle /\ ValIdle /\ FilterIdle /\ PushIdle /\ ScoreIdle /\ KeyIdle /\ WorkflowIdle /\ SmoothIdle /\ PlanIdle

OthersIdleSmooth ==
    MaskIdle /\ CandIdle /\ RunIdle /\ ValIdle /\ FilterIdle /\ PushIdle /\ ScoreIdle /\ EgIdle /\ KeyIdle /\ WorkflowIdle /\ PlanIdle

OthersIdlePlan ==
    MaskIdle /\ CandIdle /\ RunIdle /\ ValIdle /\ FilterIdle /\ PushIdle /\ ScoreIdle /\ EgIdle /\ KeyIdle /\ SmoothIdle /\ WorkflowIdle

InitMask == MaskInit /\ OthersIdleMask

InitCand == CandInit /\ OthersIdleCand

Init == RunInit /\ OthersIdleRun

InitDebug == DebugInit /\ OthersIdleRun

InitShuffle == ShuffleInit /\ OthersIdleRun

InitValidate == ValInit /\ OthersIdleVal

InitFilter == FilterInit /\ OthersIdleFilter

InitPush == PushInit /\ OthersIdlePush

InitScoreGroups == ScoreInit /\ OthersIdleScore

InitWorkflow == WorkflowInit /\ OthersIdleWorkflow

InitCandidateKey == KeyInit /\ OthersIdleKey

InitElutionGroups == EgInit /\ OthersIdleEg

InitSmooth == SmoothInit /\ OthersIdleSmooth

InitPlan == PlanInit /\ OthersIdlePlan

SpecMask == InitMask /\ [][MaskNext]_vars

SpecCand == InitCand /\ [][CandNext]_vars

Spec == Init /\ [][RunNext]_vars

SpecDebug == InitDebug /\ [][RunNext]_vars

SpecShuffle == InitShuffle /\ [][RunNext]_vars

SpecValidate == InitValidate /\ [][ValNext]_vars

SpecFilter == InitFilter /\ [][FilterNext]_vars

SpecPush == InitPush /\ [][PushNext]_vars

SpecScoreGroups == InitScoreGroups /\ [][ScoreNext]_vars

SpecWorkflow == InitWorkflow /\ [][WorkflowNext]_vars

SpecCandidateKey == InitCandidateKey /\ [][KeyNext]_vars

SpecElutionGroups == InitElutionGroups /\ [][EgNext]_vars

SpecSmooth == InitSmooth /\ [][SmoothNext]_vars

SpecPlan == InitPlan /\ [][PlanNext]_vars

\* the loops of assemble_push run on: a call that can take a step takes it
SpecPushFair == SpecPush /\ WF_vars(PushNext)

\* calibration runs on: a loop that can take a turn takes it
SpecWorkflowFair == SpecWorkflow /\ WF_vars(WorkflowNext)

=============================================================================
